---- MODULE Spec2Model ----
(***************************************************************************)
(* A model of gogit: the object store, the index, the references and the   *)
(* commands add, commit, branch, checkout and merge over a small working   *)
(* tree.  Every command is one action; the file writes a command performs  *)
(* are computed as a list of effects, in program order, and a command that *)
(* stops early (a crash or a failed write) applies a proper prefix of it.  *)
(*                                                                         *)
(* A hash is the pair <<kind, content>> of what was hashed, so that equal  *)
(* hashes are equal contents.  A path is the sequence of its components.   *)
(* An index entry is its path, hash and mode; the stat fields are left     *)
(* out of the commands and kept in the section on the index file, which    *)
(* has the file byte by byte and entries with all six fields.              *)
(* A commit is its tree, parents and message; author and time are          *)
(* left out.  add takes one path.  The ranges over Go maps take every      *)
(* order, except the one over the children of a directory in               *)
(* BuildTreeFromIndex, which takes the name order: no directory of Paths   *)
(* has two subdirectories.                                                 *)
(***************************************************************************)
EXTENDS Integers, Sequences, FiniteSets, TLC

\* ------------------------------------------------------------------ bounds
\* Number of commit objects the store may hold.
MaxCommits == 4
\* File contents are 1..MaxContent.
MaxContent == 2
\* Commit messages are 1..MaxMessages.
MaxMessages == 1
\* Number of commands that may stop between two of their writes.
MaxFaults == 1
\* Number of times the user writes or deletes a working-tree file.
MaxEdits == 3
\* Length of the payload of an object written on its own.
MaxPayload == 3
\* Number of lines of a file that is compared with its new version.
MaxLines == 8
\* Number of processes that call WriteObject at once.
MaxWriters == 2

\* File and directory names, in byte order.
Names == <<".gogitignore", "a", "d", "g.gogit", "x">>
\* Repository-relative paths, as their '/'-separated components.
Paths == {<<".gogitignore">>, <<"a">>, <<"d">>, <<"d", "x">>, <<"g.gogit", "x">>}
\* The names that end in repo.GogitDir, ".gogit".
GogitSuffixed == {"g.gogit"}
\* The names that begin with repo.GogitDir.
GogitPrefixed == {".gogitignore"}
\* Branch names a user types.
Branches == {"main", "feat"}
Contents == 1..MaxContent
\* The messages a user gives to commit.
Messages == 1..MaxMessages

\* The directories that hold a path of Paths (the root, <<>>, excluded).
Dirs == UNION {{SubSeq(p, 1, n) : n \in 1..(Len(p) - 1)} : p \in Paths}

\* ------------------------------------------------------------ byte order
Rank(n) == CHOOSE i \in 1..Len(Names) : Names[i] = n

RECURSIVE SeqLess(_, _)
\* s < t for two byte strings given as sequences of byte ranks.
SeqLess(s, t) ==
    IF t = <<>> THEN FALSE
    ELSE IF s = <<>> THEN TRUE
    ELSE IF Head(s) # Head(t) THEN Head(s) < Head(t)
    ELSE SeqLess(Tail(s), Tail(t))

RECURSIVE PathKey(_)
\* The bytes of the '/'-joined path; '/' sorts before every name byte.
PathKey(p) ==
    IF p = <<>> THEN <<>>
    ELSE IF Len(p) = 1 THEN <<Rank(p[1])>>
    ELSE <<Rank(p[1]), 0>> \o PathKey(Tail(p))

PathLess(p, q) == SeqLess(PathKey(p), PathKey(q))

IsPrefix(d, p) == Len(d) <= Len(p) /\ SubSeq(p, 1, Len(d)) = d
IsProperPrefix(d, p) == Len(d) < Len(p) /\ IsPrefix(d, p)

\* filepath.Dir of a repository-relative path.
Dir(p) == SubSeq(p, 1, Len(p) - 1)

RECURSIVE Orders(_)
\* Every enumeration of the set S: the orders a Go map range may take.
Orders(S) ==
    IF S = {} THEN {<<>>}
    ELSE UNION {{<<x>> \o o : o \in Orders(S \ {x})} : x \in S}

\* m[p] of a Go map[string]string: the empty string when p is absent.
NoHash == <<>>
Lookup(m, p) == IF p \in DOMAIN m THEN m[p] ELSE NoHash

EmptyMap == [p \in {} |-> NoHash]

\* ---------------------------------------------------------- object store
\* The hash of "<kind> <len>\0<content>", taken to be collision free.
HashObject(kind, content) == <<kind, content>>

HashBlob(c) == HashObject("blob", c)

\* The file WriteObject stores under a hash.
Stored(kind, content) == [kind |-> kind, content |-> content]

HasObject(objs, h) == h \in DOMAIN objs

\* ReadCommit: the parsed commit, ok = FALSE when the object cannot be read.
ReadCommit(objs, h) ==
    IF HasObject(objs, h)
    THEN [ok |-> TRUE, TreeHash |-> objs[h].content.tree,
          Parents |-> objs[h].content.parents, Message |-> objs[h].content.msg]
    ELSE [ok |-> FALSE, TreeHash |-> NoHash, Parents |-> <<>>, Message |-> <<>>]

FirstParent(objs, h) ==
    LET c == ReadCommit(objs, h)
    IN  IF c.ok /\ Len(c.Parents) > 0 THEN c.Parents[1] ELSE NoHash

\* ----------------------------------------------------------------- index
Mode644 == 33188
Mode755 == 33261

Entry(path, hash, mode) == [Path |-> path, Hash |-> hash, Mode |-> mode]

RECURSIVE InsertSorted(_, _)
InsertSorted(e, s) ==
    IF s = <<>> THEN <<e>>
    ELSE IF PathLess(e.Path, Head(s).Path) THEN <<e>> \o s
    ELSE <<Head(s)>> \o InsertSorted(e, Tail(s))

RECURSIVE SortEntries(_)
\* sort.Slice by Path, as WriteIndex does before it serialises.
SortEntries(s) ==
    IF s = <<>> THEN <<>> ELSE InsertSorted(Head(s), SortEntries(Tail(s)))

\* AddEntry that appends whatever the index holds.
AddEntryAppend(entries, e) == Append(entries, e)

\* Index.AddEntry: replace the entry of the same path, else append.
AddEntry(entries, e) ==
    IF \E i \in 1..Len(entries) : entries[i].Path = e.Path
    THEN LET i == CHOOSE k \in 1..Len(entries) :
                    /\ entries[k].Path = e.Path
                    /\ \A j \in 1..(k - 1) : entries[j].Path # e.Path
         IN  [entries EXCEPT ![i] = e]
    ELSE Append(entries, e)

\* Index.RemoveEntry: delete the first entry of that path, if any.
RemoveEntry(entries, path) ==
    IF \E i \in 1..Len(entries) : entries[i].Path = path
    THEN LET i == CHOOSE k \in 1..Len(entries) :
                    /\ entries[k].Path = path
                    /\ \A j \in 1..(k - 1) : entries[j].Path # path
         IN  SubSeq(entries, 1, i - 1) \o SubSeq(entries, i + 1, Len(entries))
    ELSE entries

\* The path -> hash map an index holds.
IndexPaths(entries) == {entries[i].Path : i \in 1..Len(entries)}
IndexMap(entries) ==
    [p \in IndexPaths(entries) |->
        LET i == CHOOSE k \in 1..Len(entries) : entries[k].Path = p IN entries[i].Hash]

\* ------------------------------------------------------------------ trees
DirMode == <<4, 0, 0, 0, 0>>

RECURSIVE Octal(_)
\* fmt.Sprintf("%o", mode), as its digits.
Octal(n) == IF n < 8 THEN <<n>> ELSE Append(Octal(n \div 8), n % 8)

TreeEntry(mode, name, hash) == [Mode |-> mode, Name |-> name, Hash |-> hash]

\* WriteTree's sort key: the name, a directory's followed by '/'.
TreeKey(e) == IF e.Mode = DirMode THEN <<Rank(e.Name), 0>> ELSE <<Rank(e.Name)>>

RECURSIVE InsertTreeEntry(_, _)
InsertTreeEntry(e, s) ==
    IF s = <<>> THEN <<e>>
    ELSE IF SeqLess(TreeKey(e), TreeKey(Head(s))) THEN <<e>> \o s
    ELSE <<Head(s)>> \o InsertTreeEntry(e, Tail(s))

RECURSIVE SortTreeEntries(_)
SortTreeEntries(S) ==
    IF S = {} THEN <<>>
    ELSE LET e == CHOOSE x \in S : TRUE
         IN  InsertTreeEntry(e, SortTreeEntries(S \ {e}))

\* The index entry that ends up as the leaf prefix/name: the last one wins.
LeafOf(entries, path) ==
    LET i == CHOOSE k \in 1..Len(entries) :
                /\ entries[k].Path = path
                /\ \A j \in (k + 1)..Len(entries) : entries[j].Path # path
    IN  entries[i]

RECURSIVE TreeContent(_, _)
\* The entries writeDir hands to WriteTree for the directory `prefix`.
TreeContent(entries, prefix) ==
    LET under == {entries[i].Path : i \in 1..Len(entries)}
        names == {p[Len(prefix) + 1] : p \in {q \in under : IsProperPrefix(prefix, q)}}
        child(n) ==
            IF Append(prefix, n) \in under
            THEN LET e == LeafOf(entries, Append(prefix, n))
                 IN  TreeEntry(Octal(e.Mode), n, e.Hash)
            ELSE TreeEntry(DirMode, n,
                           HashObject("tree", TreeContent(entries, Append(prefix, n))))
    IN  SortTreeEntries({child(n) : n \in names})

RECURSIVE TreeWrites(_, _)
\* The WriteObject calls of writeDir(prefix), children first (post-order).
TreeWrites(entries, prefix) ==
    LET content == TreeContent(entries, prefix)
        subs == SelectSeq(content, LAMBDA e : e.Mode = DirMode)
        RECURSIVE Below(_)
        Below(s) == IF s = <<>> THEN <<>>
                    ELSE TreeWrites(entries, Append(prefix, Head(s).Name)) \o Below(Tail(s))
    IN  Below(subs) \o <<[op |-> "obj", kind |-> "tree", content |-> content]>>

\* BuildTreeFromIndex on a path-sorted index panics (write to a nil map)
\* when it has to descend through a leaf: some entry's path is a directory
\* prefix of another's.
BuildPanics(entries) ==
    \E i, j \in 1..Len(entries) : IsProperPrefix(entries[i].Path, entries[j].Path)

BuildTreeFromIndex(entries) ==
    [hash |-> HashObject("tree", TreeContent(entries, <<>>)),
     writes |-> TreeWrites(entries, <<>>)]

\* FlattenTree that takes a directory entry for a file.
FlattenTreeFlat(objs, treeHash, prefix) ==
    IF ~HasObject(objs, treeHash) THEN [ok |-> FALSE, m |-> EmptyMap]
    ELSE LET entries == objs[treeHash].content
         IN  [ok |-> TRUE,
              m |-> [q \in {Append(prefix, entries[i].Name) : i \in 1..Len(entries)} |->
                        LET i == CHOOSE k \in 1..Len(entries) : Append(prefix, entries[k].Name) = q
                        IN  entries[i].Hash]]

RECURSIVE FlattenTree(_, _, _)
\* FlattenTree: path -> blob hash, ok = FALSE when a tree cannot be read.
FlattenTree(objs, treeHash, prefix) ==
    IF ~HasObject(objs, treeHash) THEN [ok |-> FALSE, m |-> EmptyMap]
    ELSE LET entries == objs[treeHash].content
             RECURSIVE Walk(_)
             Walk(s) ==
                IF s = <<>> THEN [ok |-> TRUE, m |-> EmptyMap]
                ELSE LET e == Head(s)
                         fullPath == Append(prefix, e.Name)
                         rest == Walk(Tail(s))
                         here == IF e.Mode = DirMode
                                 THEN FlattenTree(objs, e.Hash, fullPath)
                                 ELSE [ok |-> TRUE, m |-> (fullPath :> e.Hash)]
                     IN  [ok |-> here.ok /\ rest.ok, m |-> rest.m @@ here.m]
         IN  Walk(entries)

\* The flattened tree of a commit; the empty map for "no commit".
CommitTree(objs, h) ==
    IF h = NoHash THEN [ok |-> TRUE, m |-> EmptyMap]
    ELSE LET c == ReadCommit(objs, h)
         IN  IF c.ok THEN FlattenTree(objs, c.TreeHash, <<>>)
             ELSE [ok |-> FALSE, m |-> EmptyMap]

\* --------------------------------------------------------- first parents
\* isAncestor that looks at `descendant` alone and walks no further.
isAncestorNoWalk(objs, ancestor, descendant) ==
    descendant # NoHash /\ descendant = ancestor

RECURSIVE isAncestor(_, _, _)
\* isAncestor: `ancestor` is on the first-parent walk from `descendant`.
isAncestor(objs, ancestor, descendant) ==
    IF descendant = NoHash THEN FALSE
    ELSE IF descendant = ancestor THEN TRUE
    ELSE IF ~HasObject(objs, descendant) THEN FALSE
    ELSE isAncestor(objs, ancestor, FirstParent(objs, descendant))

RECURSIVE FirstParentChain(_, _)
\* The commits a first-parent walk from h visits, in order.
FirstParentChain(objs, h) ==
    IF h = NoHash THEN <<>>
    ELSE IF ~HasObject(objs, h) THEN <<h>>
    ELSE <<h>> \o FirstParentChain(objs, FirstParent(objs, h))

\* findMergeBase that returns the last common commit of the walk.
findMergeBaseOldest(objs, hash1, hash2) ==
    LET chain == FirstParentChain(objs, hash1)
        ancestors == {chain[i] : i \in 1..Len(chain)}
        walk == FirstParentChain(objs, hash2)
        hits == {i \in 1..Len(walk) : walk[i] \in ancestors}
    IN  IF hits = {} THEN NoHash
        ELSE walk[CHOOSE i \in hits : \A j \in hits : i >= j]

\* findMergeBase: the first commit on the walk from hash2 that is among the
\* commits collected on the walk from hash1; the empty hash when none is.
findMergeBase(objs, hash1, hash2) ==
    LET chain == FirstParentChain(objs, hash1)
        ancestors == {chain[i] : i \in 1..Len(chain)}
        walk == FirstParentChain(objs, hash2)
        hits == {i \in 1..Len(walk) : walk[i] \in ancestors}
    IN  IF hits = {} THEN NoHash
        ELSE walk[CHOOSE i \in hits : \A j \in hits : i <= j]

\* ResolvePath that lets a modification win over a deletion.
ResolvePathModifyWins(baseH, curH, tarH) ==
    IF curH = tarH THEN [hash |-> curH, conflict |-> FALSE]
    ELSE IF curH = baseH THEN [hash |-> tarH, conflict |-> FALSE]
    ELSE IF tarH = baseH THEN [hash |-> curH, conflict |-> FALSE]
    ELSE IF curH = NoHash THEN [hash |-> tarH, conflict |-> FALSE]
    ELSE IF tarH = NoHash THEN [hash |-> curH, conflict |-> FALSE]
    ELSE [hash |-> curH, conflict |-> TRUE]

\* ResolvePath that settles a path both sides changed in favour of the
\* target.
ResolvePathTargetWins(baseH, curH, tarH) ==
    IF curH = tarH THEN [hash |-> curH, conflict |-> FALSE]
    ELSE IF curH = baseH THEN [hash |-> tarH, conflict |-> FALSE]
    ELSE IF tarH = baseH THEN [hash |-> curH, conflict |-> FALSE]
    ELSE [hash |-> tarH, conflict |-> FALSE]

\* The switch of fileLevelMerge for one path.
ResolvePath(baseH, curH, tarH) ==
    IF curH = tarH THEN [hash |-> curH, conflict |-> FALSE]
    ELSE IF curH = baseH THEN [hash |-> tarH, conflict |-> FALSE]
    ELSE IF tarH = baseH THEN [hash |-> curH, conflict |-> FALSE]
    ELSE [hash |-> curH, conflict |-> TRUE]

\* ResolveTrees with a conflict flag that is never set.
ResolveTreesFlagUnset(baseTree, currentTree, targetTree) ==
    LET allPaths == DOMAIN baseTree \cup DOMAIN currentTree \cup DOMAIN targetTree
        r(p) == ResolvePath(Lookup(baseTree, p), Lookup(currentTree, p),
                            Lookup(targetTree, p))
        kept == {p \in allPaths : r(p).hash # NoHash}
    IN  [mergedTree |-> [p \in kept |-> r(p).hash],
         conflicts |-> {p \in allPaths : r(p).conflict},
         hasConflict |-> FALSE]

\* The merged map fileLevelMerge computes, the paths it reports as
\* conflicts, and its conflict flag.
ResolveTrees(baseTree, currentTree, targetTree) ==
    LET allPaths == DOMAIN baseTree \cup DOMAIN currentTree \cup DOMAIN targetTree
        r(p) == ResolvePath(Lookup(baseTree, p), Lookup(currentTree, p),
                            Lookup(targetTree, p))
        kept == {p \in allPaths : r(p).hash # NoHash}
        conflicts == {p \in allPaths : r(p).conflict}
    IN  [mergedTree |-> [p \in kept |-> r(p).hash],
         conflicts |-> conflicts,
         hasConflict |-> conflicts # {}]

\* ------------------------------------------------------------------ state
VARIABLES
    objects,    \* .gogit/objects: hash -> stored file
    index,      \* .gogit/index: the entries, in file order
    refs,       \* .gogit/refs/heads: branch name -> commit hash
    HEAD,       \* .gogit/HEAD: <<"ref", branch>> or a commit hash
    files,      \* working tree: path -> [content, exec]
    dirs,       \* working tree: the directories that exist
    faults,     \* commands stopped early so far
    edits,      \* working-tree edits the user has made so far
    scope,      \* the paths this user works on
    probe       \* the input and result of a function applied on its own

vars == <<objects, index, refs, HEAD, files, dirs, faults, edits, scope, probe>>

disk == <<objects, index, refs, HEAD, files, dirs>>

\* The repository and working tree as one value.
State ==
    [objects |-> objects, index |-> index, refs |-> refs, HEAD |-> HEAD,
     files |-> files, dirs |-> dirs]

\* ------------------------------------------------------------- references
BranchRef(name) == name

\* ReadRef: the empty hash when the ref file does not exist.
ReadRef(s, name) == Lookup(s.refs, name)

\* CurrentBranch: the empty name when HEAD is detached.
CurrentBranch(s) == IF s.HEAD[1] = "ref" THEN s.HEAD[2] ELSE ""

\* ResolveHead: one hop through a symbolic HEAD.
ResolveHead(s) == IF s.HEAD[1] = "ref" THEN ReadRef(s, s.HEAD[2]) ELSE s.HEAD

SymbolicHead(name) == <<"ref", name>>

\* ----------------------------------------------------------- file system
DirEmpty(s, d) ==
    /\ \A p \in DOMAIN s.files : Dir(p) # d
    /\ \A e \in s.dirs : Dir(e) # d

\* The non-root directories on the way to d, d included.
Ancestry(d) == {SubSeq(d, 1, n) : n \in 1..Len(d)}

\* os.MkdirAll fails when a component of the path is a file.
MkdirAllFails(s, d) == \E a \in Ancestry(d) : a \in DOMAIN s.files

MkdirAll(s, d) == [s EXCEPT !.dirs = @ \cup Ancestry(d)]

\* os.WriteFile fails on a directory and under a missing directory.
WriteFileFails(s, p) == p \in s.dirs \/ (Dir(p) # <<>> /\ Dir(p) \notin s.dirs)

\* os.WriteFile(path, content, 0644): the permission applies to a new file.
WriteFile(s, p, c) ==
    LET x == IF p \in DOMAIN s.files THEN s.files[p].exec ELSE FALSE
    IN  [s EXCEPT !.files = (p :> [content |-> c, exec |-> x]) @@ @]

\* os.Remove, its error dropped: a file, or an empty directory, goes.
Remove(s, p) ==
    IF p \in DOMAIN s.files
    THEN [s EXCEPT !.files = [q \in DOMAIN @ \ {p} |-> @[q]]]
    ELSE IF p \in s.dirs /\ DirEmpty(s, p) THEN [s EXCEPT !.dirs = @ \ {p}]
    ELSE s

RECURSIVE cleanEmptyDirs(_, _)
\* cleanEmptyDirs: remove empty directories upward, stopping at the root
\* and at a directory whose path ends in ".gogit".
cleanEmptyDirs(s, dir) ==
    IF dir = <<>> \/ dir[Len(dir)] \in GogitSuffixed THEN s
    ELSE IF dir \notin s.dirs \/ ~DirEmpty(s, dir) THEN s
    ELSE cleanEmptyDirs([s EXCEPT !.dirs = @ \ {dir}], Dir(dir))

\* ---------------------------------------------------------------- effects
\* WriteObject that writes the file whether or not it is there.
WriteObjectAlways(s, kind, content) ==
    LET h == HashObject(kind, content)
    IN  [s |-> [s EXCEPT !.objects = (h :> Stored(kind, content)) @@ @],
         log |-> <<"obj">>]

\* WriteObject: nothing is written when the file exists.
WriteObject(s, kind, content) ==
    LET h == HashObject(kind, content)
    IN  IF HasObject(s.objects, h) THEN [s |-> s, log |-> <<>>]
        ELSE [s |-> [s EXCEPT !.objects = (h :> Stored(kind, content)) @@ @],
              log |-> <<"obj">>]

\* WriteIndex: sort by path, then replace the file.
WriteIndex(s, entries) ==
    [s |-> [s EXCEPT !.index = SortEntries(entries)], log |-> <<"idx">>]

WriteRef(s, name, hash) ==
    [s |-> [s EXCEPT !.refs = (name :> hash) @@ @], log |-> <<"ref">>]

UpdateHead(s, content) == [s |-> [s EXCEPT !.HEAD = content], log |-> <<"ref">>]

\* One file-system call of a command: the state after it, the store, index
\* or reference write it made, and whether it returned an error.
Effect(s, e) ==
    LET quiet(t) == [s |-> t, log |-> <<>>, fail |-> FALSE]
        wrote(r) == [s |-> r.s, log |-> r.log, fail |-> FALSE]
        failed == [s |-> s, log |-> <<>>, fail |-> TRUE]
    IN  CASE e.op = "obj" -> wrote(WriteObject(s, e.kind, e.content))
          [] e.op = "idx" -> wrote(WriteIndex(s, e.entries))
          [] e.op = "ref" -> wrote(WriteRef(s, e.name, e.hash))
          [] e.op = "head" -> wrote(UpdateHead(s, e.content))
          [] e.op = "remove" -> quiet(Remove(s, e.path))
          [] e.op = "clean" -> quiet(cleanEmptyDirs(s, e.dir))
          [] e.op = "mkdir" ->
                IF MkdirAllFails(s, e.dir) THEN failed ELSE quiet(MkdirAll(s, e.dir))
          [] e.op = "write" ->
                IF WriteFileFails(s, e.path) THEN failed
                ELSE quiet(WriteFile(s, e.path, e.content))
          [] e.op = "fail" -> failed

RECURSIVE RunEffects(_, _, _, _)
\* The first k calls of a command, cut short by a call that fails.
RunEffects(s, log, effs, k) ==
    IF effs = <<>> THEN [s |-> s, log |-> log, end |-> "done"]
    ELSE IF k = 0 THEN [s |-> s, log |-> log, end |-> "stop"]
    ELSE LET r == Effect(s, Head(effs))
         IN  IF r.fail THEN [s |-> s, log |-> log, end |-> "err"]
             ELSE RunEffects(r.s, log \o r.log, Tail(effs), k - 1)

\* A command run to its end: every call made, unless one fails.
Complete(s, effs) == RunEffects(s, <<>>, effs, Len(effs))

\* A command with the calls `effs`.  It may stop after any call but the
\* last (a crash, or the next call failing), while the budget of faults
\* lasts.
Run(effs) ==
    \E es \in {effs} :
    \E k \in (IF faults < MaxFaults THEN 1..Len(es) ELSE {}) \cup {Len(es)} :
    \E r \in {RunEffects(State, <<>>, es, k)} :
            /\ r.end = "stop" => faults < MaxFaults
            /\ objects' = r.s.objects
            /\ index' = r.s.index
            /\ refs' = r.s.refs
            /\ HEAD' = r.s.HEAD
            /\ files' = r.s.files
            /\ dirs' = r.s.dirs
            /\ faults' = IF r.end = "stop" THEN faults + 1 ELSE faults
            /\ UNCHANGED <<edits, scope, probe>>

\* -------------------------------------------------------------------- add
\* The regular files filepath.Walk visits under a directory, in its
\* (lexical) order.
WalkFiles(s, d) ==
    LET S == {p \in DOMAIN s.files : IsProperPrefix(d, p)}
        RECURSIVE Sorted(_)
        Sorted(T) ==
            IF T = {} THEN <<>>
            ELSE LET p == CHOOSE x \in T : \A y \in T \ {x} : PathLess(x, y)
                 IN  <<p>> \o Sorted(T \ {p})
    IN  Sorted(S)

\* addFile: a path that begins with ".gogit" is passed over; else write the
\* blob, then add or replace the entry in memory.
addFile(s, acc, p) ==
    LET f == s.files[p]
        mode == IF f.exec THEN Mode755 ELSE Mode644
    IN  IF p[1] \in GogitPrefixed THEN acc
        ELSE [entries |-> AddEntry(acc.entries, Entry(p, HashBlob(f.content), mode)),
              effs |-> Append(acc.effs,
                              [op |-> "obj", kind |-> "blob", content |-> f.content])]

RECURSIVE addFiles(_, _, _)
addFiles(s, acc, ps) ==
    IF ps = <<>> THEN acc ELSE addFiles(s, addFile(s, acc, Head(ps)), Tail(ps))

\* addPath that leaves the entry of a missing path where it is.
addPathKeepMissing(s, acc, p) ==
    IF p \in DOMAIN s.files THEN addFile(s, acc, p)
    ELSE IF p = <<>> \/ p \in s.dirs THEN addFiles(s, acc, WalkFiles(s, p))
    ELSE acc

\* addPath: a missing path leaves the index, a directory is walked.
addPath(s, acc, p) ==
    IF p \in DOMAIN s.files THEN addFile(s, acc, p)
    ELSE IF p = <<>> \/ p \in s.dirs THEN addFiles(s, acc, WalkFiles(s, p))
    ELSE [entries |-> RemoveEntry(acc.entries, p), effs |-> acc.effs]

\* Add of one path: the blobs first, the index file last.
AddEffects(s, p) ==
    LET r == addPath(s, [entries |-> s.index, effs |-> <<>>], p)
    IN  Append(r.effs, [op |-> "idx", entries |-> r.entries])

Add(p) ==
    /\ p \in scope \/ p = <<>> \/ \E q \in scope : IsProperPrefix(p, q)
    /\ Run(AddEffects(State, p))

\* ----------------------------------------------------------------- commit
CommitCount(objs) == Cardinality({h \in DOMAIN objs : objs[h].kind = "commit"})

\* The content of the commit object WriteCommit formats.
CommitContent(treeHash, parents, message) ==
    [tree |-> treeHash, parents |-> parents, msg |-> message]

\* writeCommitAndUpdateRef that always writes HEAD.
writeCommitAndUpdateHead(s, treeHash, parents, message) ==
    LET content == CommitContent(treeHash, parents, message)
    IN  <<[op |-> "obj", kind |-> "commit", content |-> content],
          [op |-> "head", content |-> HashObject("commit", content)]>>

\* writeCommitAndUpdateRef with the reference written before the commit.
writeRefThenCommit(s, treeHash, parents, message) ==
    LET content == CommitContent(treeHash, parents, message)
        commitHash == HashObject("commit", content)
        branch == CurrentBranch(s)
    IN  <<IF branch # ""
          THEN [op |-> "ref", name |-> BranchRef(branch), hash |-> commitHash]
          ELSE [op |-> "head", content |-> commitHash],
          [op |-> "obj", kind |-> "commit", content |-> content]>>

\* writeCommitAndUpdateRef: the commit object, then the branch ref, or HEAD
\* itself when it is detached.
writeCommitAndUpdateRef(s, treeHash, parents, message) ==
    LET content == CommitContent(treeHash, parents, message)
        commitHash == HashObject("commit", content)
        branch == CurrentBranch(s)
    IN  <<[op |-> "obj", kind |-> "commit", content |-> content],
          IF branch # ""
          THEN [op |-> "ref", name |-> BranchRef(branch), hash |-> commitHash]
          ELSE [op |-> "head", content |-> commitHash]>>

\* CommitPlan without the test for an empty index.
CommitPlanAllowEmpty(s, message) ==
    IF BuildPanics(s.index) THEN [res |-> "panic", effs |-> <<>>]
    ELSE LET tree == BuildTreeFromIndex(s.index)
             headHash == ResolveHead(s)
             parents == IF headHash # NoHash THEN <<headHash>> ELSE <<>>
         IN  [res |-> "ok",
              effs |-> tree.writes \o
                       writeCommitAndUpdateRef(s, tree.hash, parents, message)]

\* CommitPlan that records no parent.
CommitPlanNoParent(s, message) ==
    IF Len(s.index) = 0 THEN [res |-> "nothing", effs |-> <<>>]
    ELSE IF BuildPanics(s.index) THEN [res |-> "panic", effs |-> <<>>]
    ELSE LET tree == BuildTreeFromIndex(s.index)
         IN  [res |-> "ok",
              effs |-> tree.writes \o
                       writeCommitAndUpdateRef(s, tree.hash, <<>>, message)]

\* CommitPlan that names as parent a commit that has not been written.
CommitPlanUnwrittenParent(s, message) ==
    IF Len(s.index) = 0 THEN [res |-> "nothing", effs |-> <<>>]
    ELSE IF BuildPanics(s.index) THEN [res |-> "panic", effs |-> <<>>]
    ELSE LET tree == BuildTreeFromIndex(s.index)
             child == HashObject("commit", CommitContent(tree.hash, <<>>, message))
         IN  [res |-> "ok",
              effs |-> tree.writes \o
                       writeCommitAndUpdateRef(s, tree.hash, <<child>>, message)]

\* Commit: result and calls.
CommitPlan(s, message) ==
    IF Len(s.index) = 0 THEN [res |-> "nothing", effs |-> <<>>]
    ELSE IF BuildPanics(s.index) THEN [res |-> "panic", effs |-> <<>>]
    ELSE LET tree == BuildTreeFromIndex(s.index)
             headHash == ResolveHead(s)
             parents == IF headHash # NoHash THEN <<headHash>> ELSE <<>>
         IN  [res |-> "ok",
              effs |-> tree.writes \o
                       writeCommitAndUpdateRef(s, tree.hash, parents, message)]

\* The commit objects a list of calls would add to the store.
NewCommits(s, effs) ==
    {i \in 1..Len(effs) :
        /\ effs[i].op = "obj"
        /\ effs[i].kind = "commit"
        /\ ~HasObject(s.objects, HashObject("commit", effs[i].content))}

Room(s, effs) == CommitCount(s.objects) + Cardinality(NewCommits(s, effs)) <= MaxCommits

Commit(message) ==
    \E plan \in {CommitPlan(State, message)} :
        /\ Room(State, plan.effs)
        /\ Run(plan.effs)

\* ----------------------------------------------------------------- branch
\* createBranch without the test for an existing branch.
BranchPlanOverwrite(s, name) ==
    IF ResolveHead(s) = NoHash THEN [res |-> "nocommits", effs |-> <<>>]
    ELSE [res |-> "ok",
          effs |-> <<[op |-> "ref", name |-> BranchRef(name), hash |-> ResolveHead(s)]>>]

\* createBranch: result and calls.
BranchPlan(s, name) ==
    IF ReadRef(s, BranchRef(name)) # NoHash THEN [res |-> "exists", effs |-> <<>>]
    ELSE IF ResolveHead(s) = NoHash THEN [res |-> "nocommits", effs |-> <<>>]
    ELSE [res |-> "ok",
          effs |-> <<[op |-> "ref", name |-> BranchRef(name), hash |-> ResolveHead(s)]>>]

Branch(name) ==
    \E plan \in {BranchPlan(State, name)} : Run(plan.effs)

\* --------------------------------------------------------------- checkout
RECURSIVE WriteTreeFiles(_, _, _)
\* The loop that writes a path -> hash map into the working tree, in the
\* order the map range takes: MkdirAll, ReadBlob, WriteFile for each path.
WriteTreeFiles(s, tree, order) ==
    IF order = <<>> THEN <<>>
    ELSE LET p == Head(order)
             mk == [op |-> "mkdir", dir |-> Dir(p)]
             wr == IF HasObject(s.objects, tree[p])
                   THEN [op |-> "write", path |-> p, content |-> s.objects[tree[p]].content]
                   ELSE [op |-> "fail"]
         IN  <<mk, wr>> \o WriteTreeFiles(s, tree, Tail(order))

RECURSIVE TreeEntries(_, _)
\* The index that loop builds: one 100644 entry per path, by AddEntry.
TreeEntries(tree, order) ==
    IF order = <<>> THEN <<>>
    ELSE AddEntry(TreeEntries(tree, SubSeq(order, 1, Len(order) - 1)),
                  Entry(order[Len(order)], tree[order[Len(order)]], Mode644))

RECURSIVE RemoveAndClean(_)
\* Checkout's removal loop: os.Remove, then cleanEmptyDirs on the parent.
RemoveAndClean(order) ==
    IF order = <<>> THEN <<>>
    ELSE <<[op |-> "remove", path |-> Head(order)],
           [op |-> "clean", dir |-> Dir(Head(order))]>> \o RemoveAndClean(Tail(order))

\* updateWorkingTree with HEAD written first.
updateWorkingTreeHeadFirst(s, target, targetTree, delOrder, writeOrder) ==
    <<[op |-> "head", content |-> SymbolicHead(target)]>>
        \o RemoveAndClean(delOrder)
        \o WriteTreeFiles(s, targetTree, writeOrder)
        \o <<[op |-> "idx", entries |-> TreeEntries(targetTree, writeOrder)]>>

\* updateWorkingTree that leaves the commit of the target in HEAD.
updateWorkingTreeDetaching(s, target, targetTree, delOrder, writeOrder) ==
    RemoveAndClean(delOrder)
        \o WriteTreeFiles(s, targetTree, writeOrder)
        \o <<[op |-> "idx", entries |-> TreeEntries(targetTree, writeOrder)],
             [op |-> "head", content |-> ReadRef(s, BranchRef(target))]>>

\* updateWorkingTree: removals, writes, the index file, HEAD last.
updateWorkingTree(s, target, targetTree, delOrder, writeOrder) ==
    RemoveAndClean(delOrder)
        \o WriteTreeFiles(s, targetTree, writeOrder)
        \o <<[op |-> "idx", entries |-> TreeEntries(targetTree, writeOrder)],
             [op |-> "head", content |-> SymbolicHead(target)]>>

\* The two trees Checkout compares, when it gets that far.
CheckoutTrees(s, target) ==
    LET branchHash == ReadRef(s, BranchRef(target))
        currentHash == ResolveHead(s)
        cur == CommitTree(s.objects, currentHash)
        tar == CommitTree(s.objects, branchHash)
    IN  IF branchHash = NoHash \/ currentHash = branchHash \/ ~cur.ok \/ ~tar.ok
        THEN [full |-> FALSE, currentTree |-> EmptyMap, targetTree |-> EmptyMap]
        ELSE [full |-> TRUE, currentTree |-> cur.m, targetTree |-> tar.m]

\* CheckoutPlan whose same-commit case also rewrites the index from the
\* commit's tree.
CheckoutPlanResetIndex(s, target, t, delOrder, writeOrder) ==
    LET branchHash == ReadRef(s, BranchRef(target))
        currentHash == ResolveHead(s)
        tree == CommitTree(s.objects, branchHash).m
    IN  IF branchHash = NoHash THEN [res |-> "notfound", effs |-> <<>>]
        ELSE IF currentHash = branchHash
        THEN [res |-> "ok",
              effs |-> <<[op |-> "idx",
                          entries |-> TreeEntries(tree, CHOOSE o \in Orders(DOMAIN tree) : TRUE)],
                         [op |-> "head", content |-> SymbolicHead(target)]>>]
        ELSE IF ~t.full THEN [res |-> "err", effs |-> <<>>]
        ELSE [res |-> "ok",
              effs |-> updateWorkingTree(s, target, t.targetTree, delOrder, writeOrder)]

\* CheckoutPlan that points HEAD at a branch that does not exist.
CheckoutPlanUnbornBranch(s, target, t, delOrder, writeOrder) ==
    LET branchHash == ReadRef(s, BranchRef(target))
        currentHash == ResolveHead(s)
    IN  IF branchHash = NoHash \/ currentHash = branchHash
        THEN [res |-> "ok", effs |-> <<[op |-> "head", content |-> SymbolicHead(target)]>>]
        ELSE IF ~t.full THEN [res |-> "err", effs |-> <<>>]
        ELSE [res |-> "ok",
              effs |-> updateWorkingTree(s, target, t.targetTree, delOrder, writeOrder)]

\* CheckoutPlan whose same-commit case detaches a HEAD that is already on
\* the target branch.
CheckoutPlanDetaching(s, target, t, delOrder, writeOrder) ==
    LET branchHash == ReadRef(s, BranchRef(target))
        currentHash == ResolveHead(s)
    IN  IF branchHash = NoHash THEN [res |-> "notfound", effs |-> <<>>]
        ELSE IF currentHash = branchHash
        THEN [res |-> "ok",
              effs |-> <<[op |-> "head",
                          content |-> IF s.HEAD = SymbolicHead(target) THEN branchHash
                                      ELSE SymbolicHead(target)]>>]
        ELSE IF ~t.full THEN [res |-> "err", effs |-> <<>>]
        ELSE [res |-> "ok",
              effs |-> updateWorkingTree(s, target, t.targetTree, delOrder, writeOrder)]

\* Checkout: result and calls, for one order of each map range; t is
\* CheckoutTrees(s, target).
CheckoutPlan(s, target, t, delOrder, writeOrder) ==
    LET branchHash == ReadRef(s, BranchRef(target))
        currentHash == ResolveHead(s)
    IN  IF branchHash = NoHash THEN [res |-> "notfound", effs |-> <<>>]
        ELSE IF currentHash = branchHash
        THEN [res |-> "ok", effs |-> <<[op |-> "head", content |-> SymbolicHead(target)]>>]
        ELSE IF ~t.full THEN [res |-> "err", effs |-> <<>>]
        ELSE [res |-> "ok",
              effs |-> updateWorkingTree(s, target, t.targetTree, delOrder, writeOrder)]

Checkout(target) ==
    \E t \in {CheckoutTrees(State, target)} :
    \E delOrder \in Orders(DOMAIN t.currentTree \ DOMAIN t.targetTree),
       writeOrder \in Orders(DOMAIN t.targetTree) :
        Run(CheckoutPlan(State, target, t, delOrder, writeOrder).effs)

\* ------------------------------------------------------------------ merge
MergeMessage(targetBranch, currentBranch) ==
    <<"Merge branch '", targetBranch, "' into ", currentBranch>>

\* fastForwardMerge that leaves the branch ref alone.
fastForwardMergeNoRef(s, currentBranch, targetHash, writeOrder) ==
    LET targetTree == CommitTree(s.objects, targetHash)
    IN  IF ~targetTree.ok THEN <<[op |-> "fail"]>>
        ELSE WriteTreeFiles(s, targetTree.m, writeOrder)
             \o <<[op |-> "idx", entries |-> TreeEntries(targetTree.m, writeOrder)]>>

RECURSIVE RemoveFiles(_)
RemoveFiles(order) ==
    IF order = <<>> THEN <<>>
    ELSE <<[op |-> "remove", path |-> Head(order)]>> \o RemoveFiles(Tail(order))

\* fastForwardMerge followed by the removal of the files of the current
\* tree that the target tree lacks.
fastForwardMergeDeleting(s, currentBranch, targetHash, writeOrder) ==
    LET targetTree == CommitTree(s.objects, targetHash)
        currentTree == CommitTree(s.objects, ReadRef(s, BranchRef(currentBranch)))
        gone == DOMAIN currentTree.m \ DOMAIN targetTree.m
    IN  <<[op |-> "ref", name |-> BranchRef(currentBranch), hash |-> targetHash]>>
        \o (IF ~targetTree.ok THEN <<[op |-> "fail"]>>
            ELSE WriteTreeFiles(s, targetTree.m, writeOrder)
                 \o <<[op |-> "idx", entries |-> TreeEntries(targetTree.m, writeOrder)]>>
                 \o RemoveFiles(CHOOSE o \in Orders(gone) : TRUE))

\* fastForwardMerge: the branch ref first, then the files, then the index.
fastForwardMerge(s, currentBranch, targetHash, writeOrder) ==
    LET targetTree == CommitTree(s.objects, targetHash)
    IN  <<[op |-> "ref", name |-> BranchRef(currentBranch), hash |-> targetHash]>>
        \o (IF ~targetTree.ok THEN <<[op |-> "fail"]>>
            ELSE WriteTreeFiles(s, targetTree.m, writeOrder)
                 \o <<[op |-> "idx", entries |-> TreeEntries(targetTree.m, writeOrder)]>>)

\* The three trees fileLevelMerge reads and what it makes of them.
MergeTrees(s, currentHash, targetHash) ==
    LET baseHash == findMergeBase(s.objects, currentHash, targetHash)
        base == CommitTree(s.objects, baseHash)
        cur == CommitTree(s.objects, currentHash)
        tar == CommitTree(s.objects, targetHash)
        r == ResolveTrees(base.m, cur.m, tar.m)
    IN  [ok |-> base.ok /\ cur.ok /\ tar.ok, baseTree |-> base.m, currentTree |-> cur.m,
         targetTree |-> tar.m, mergedTree |-> r.mergedTree, hasConflict |-> r.hasConflict]

\* fileLevelMerge without the removal of the paths the merge dropped.
fileLevelMergeNoRemoval(s, currentBranch, targetBranch, currentHash, targetHash, m, writeOrder, delOrder) ==
    LET idx == SortEntries(TreeEntries(m.mergedTree, writeOrder))
        tree == BuildTreeFromIndex(idx)
        content == CommitContent(tree.hash, <<currentHash, targetHash>>,
                                 MergeMessage(targetBranch, currentBranch))
    IN  WriteTreeFiles(s, m.mergedTree, writeOrder)
        \o <<[op |-> "idx", entries |-> TreeEntries(m.mergedTree, writeOrder)]>>
        \o (IF BuildPanics(idx) THEN <<[op |-> "fail"]>>
            ELSE tree.writes
                 \o <<[op |-> "obj", kind |-> "commit", content |-> content],
                      [op |-> "ref", name |-> BranchRef(currentBranch),
                       hash |-> HashObject("commit", content)]>>)

\* fileLevelMerge after a conflict-free resolution: the files, the index,
\* the removals, the tree objects, the merge commit, the branch ref.
fileLevelMerge(s, currentBranch, targetBranch, currentHash, targetHash, m, writeOrder, delOrder) ==
    LET idx == SortEntries(TreeEntries(m.mergedTree, writeOrder))
        tree == BuildTreeFromIndex(idx)
        content == CommitContent(tree.hash, <<currentHash, targetHash>>,
                                 MergeMessage(targetBranch, currentBranch))
    IN  WriteTreeFiles(s, m.mergedTree, writeOrder)
        \o <<[op |-> "idx", entries |-> TreeEntries(m.mergedTree, writeOrder)]>>
        \o RemoveFiles(delOrder)
        \o (IF BuildPanics(idx) THEN <<[op |-> "fail"]>>
            ELSE tree.writes
                 \o <<[op |-> "obj", kind |-> "commit", content |-> content],
                      [op |-> "ref", name |-> BranchRef(currentBranch),
                       hash |-> HashObject("commit", content)]>>)

\* MergeCase without the test for a detached HEAD.
MergeCaseNoDetachedTest(s, branchName) ==
    LET currentHash == ResolveHead(s)
        targetHash == ReadRef(s, BranchRef(branchName))
        none == [ok |-> TRUE, baseTree |-> EmptyMap, currentTree |-> EmptyMap,
                 targetTree |-> EmptyMap, mergedTree |-> EmptyMap, hasConflict |-> FALSE]
        case(res, m) == [res |-> res, m |-> m, currentBranch |-> CurrentBranch(s),
                         currentHash |-> currentHash, targetHash |-> targetHash]
    IN  IF currentHash = NoHash THEN case("nocommits", none)
        ELSE IF targetHash = NoHash THEN case("notfound", none)
        ELSE IF currentHash = targetHash THEN case("uptodate", none)
        ELSE IF isAncestor(s.objects, currentHash, targetHash) THEN case("ff", none)
        ELSE IF isAncestor(s.objects, targetHash, currentHash) THEN case("uptodate", none)
        ELSE CHOOSE c \in {case(IF ~m.ok THEN "err"
                                ELSE IF m.hasConflict THEN "conflict" ELSE "merged", m) :
                           m \in {MergeTrees(s, currentHash, targetHash)}} : TRUE

\* What Merge reads before it writes anything, and which way it goes: a
\* failed precondition, nothing to do, a fast-forward, or the file-level
\* merge and its verdict.
MergeCase(s, branchName) ==
    LET currentHash == ResolveHead(s)
        targetHash == ReadRef(s, BranchRef(branchName))
        none == [ok |-> TRUE, baseTree |-> EmptyMap, currentTree |-> EmptyMap,
                 targetTree |-> EmptyMap, mergedTree |-> EmptyMap, hasConflict |-> FALSE]
        case(res, m) == [res |-> res, m |-> m, currentBranch |-> CurrentBranch(s),
                         currentHash |-> currentHash, targetHash |-> targetHash]
    IN  IF CurrentBranch(s) = "" THEN case("detached", none)
        ELSE IF currentHash = NoHash THEN case("nocommits", none)
        ELSE IF targetHash = NoHash THEN case("notfound", none)
        ELSE IF currentHash = targetHash THEN case("uptodate", none)
        ELSE IF isAncestor(s.objects, currentHash, targetHash) THEN case("ff", none)
        ELSE IF isAncestor(s.objects, targetHash, currentHash) THEN case("uptodate", none)
        ELSE CHOOSE c \in {case(IF ~m.ok THEN "err"
                                ELSE IF m.hasConflict THEN "conflict" ELSE "merged", m) :
                           m \in {MergeTrees(s, currentHash, targetHash)}} : TRUE

\* The paths a merge writes to the working tree, and the paths it removes.
MergeWrites(s, c) ==
    IF c.res = "ff"
    THEN [writes |-> DOMAIN CommitTree(s.objects, c.targetHash).m, dels |-> {}]
    ELSE IF c.res = "merged"
    THEN [writes |-> DOMAIN c.m.mergedTree,
          dels |-> DOMAIN c.m.currentTree \ DOMAIN c.m.mergedTree]
    ELSE [writes |-> {}, dels |-> {}]

\* Merge: result and calls, for one order of each map range; c is
\* MergeCase(s, branchName).
MergePlan(s, branchName, c, writeOrder, delOrder) ==
    [res |-> c.res,
     effs |-> IF c.res = "ff"
              THEN fastForwardMerge(s, c.currentBranch, c.targetHash, writeOrder)
              ELSE IF c.res = "merged"
              THEN fileLevelMerge(s, c.currentBranch, branchName, c.currentHash,
                                  c.targetHash, c.m, writeOrder, delOrder)
              ELSE <<>>]

Merge(branchName) ==
    \E c \in {MergeCase(State, branchName)} :
    \E w \in {MergeWrites(State, c)} :
    \E writeOrder \in Orders(w.writes), delOrder \in Orders(w.dels) :
    \E plan \in {MergePlan(State, branchName, c, writeOrder, delOrder)} :
        /\ Room(State, plan.effs)
        /\ Run(plan.effs)

\* -------------------------------------------------------------------- log
RECURSIVE LogWalk(_, _)
\* The loop of Log: the commits it prints, and whether a read failed.
LogWalk(objs, hash) ==
    IF hash = NoHash THEN [ok |-> TRUE, out |-> <<>>]
    ELSE IF ~ReadCommit(objs, hash).ok THEN [ok |-> FALSE, out |-> <<>>]
    ELSE LET rest == LogWalk(objs, FirstParent(objs, hash))
         IN  [ok |-> rest.ok, out |-> <<hash>> \o rest.out]

\* Log: the commits printed from the commit HEAD resolves to.
Log(s) == LogWalk(s.objects, ResolveHead(s))

\* ------------------------------------------------------------ environment
\* The user writes a file (making its directories) or deletes one.
UserWrite(p, c) ==
    /\ p \in scope
    /\ edits < MaxEdits
    /\ edits' = edits + 1
    /\ ~MkdirAllFails(State, Dir(p))
    /\ ~WriteFileFails(MkdirAll(State, Dir(p)), p)
    /\ Lookup([q \in DOMAIN files |-> <<files[q].content>>], p) # <<c>>
    /\ files' = WriteFile(State, p, c).files
    /\ dirs' = MkdirAll(State, Dir(p)).dirs
    /\ UNCHANGED <<objects, index, refs, HEAD, faults, scope, probe>>

UserRemove(p) ==
    /\ p \in scope
    /\ edits < MaxEdits
    /\ edits' = edits + 1
    /\ p \in DOMAIN files
    /\ files' = Remove(State, p).files
    /\ UNCHANGED <<objects, index, refs, HEAD, dirs, faults, scope, probe>>

\* The user sets or clears the execute bits of a file.
UserChmod(p) ==
    /\ p \in scope
    /\ edits < MaxEdits
    /\ edits' = edits + 1
    /\ p \in DOMAIN files
    /\ files' = [files EXCEPT ![p].exec = ~@]
    /\ UNCHANGED <<objects, index, refs, HEAD, dirs, faults, scope, probe>>

\* The user points HEAD at a commit directly (a detached HEAD).
DetachHead ==
    /\ \E h \in DOMAIN objects :
        /\ objects[h].kind = "commit"
        /\ HEAD' = h
    /\ UNCHANGED <<objects, index, refs, files, dirs, faults, edits, scope, probe>>

\* ---------------------------------------------------------- specifications
\* The repository `init` leaves, before any file exists.
Fresh ==
    /\ objects = [h \in {} |-> Stored("blob", 0)]
    /\ index = <<>>
    /\ refs = [b \in {} |-> NoHash]
    /\ HEAD = SymbolicHead("main")
    /\ files = [p \in {} |-> [content |-> 0, exec |-> FALSE]]
    /\ dirs = {}
    /\ edits = 0

Idle == [stage |-> "idle"]

\* Every command runs to its end: the budget of faults is spent.
Init ==
    /\ Fresh
    /\ faults = MaxFaults
    /\ scope = {<<"a">>, <<"d", "x">>}
    /\ probe = Idle

Next ==
    \/ \E p \in Paths \cup Dirs \cup {<<>>} : Add(p)
    \/ \E m \in Messages : Commit(m)
    \/ \E b \in Branches : Branch(b)
    \/ \E b \in Branches : Checkout(b)
    \/ \E b \in Branches : Merge(b)
    \/ \E p \in Paths, c \in Contents : UserWrite(p, c)
    \/ \E p \in Paths : UserRemove(p)

Spec == Init /\ [][Next]_vars

\* Commands may stop between two of their writes.
InitCrash ==
    /\ Fresh
    /\ faults = 0
    /\ scope = {<<"d", "x">>}
    /\ probe = Idle

SpecCrash == InitCrash /\ [][Next]_vars

\* A user who writes a file where a commit has a directory.
InitClash ==
    /\ Fresh
    /\ faults = MaxFaults
    /\ scope = {<<"d">>, <<"d", "x">>}
    /\ probe = Idle

SpecClash == InitClash /\ [][Next]_vars

\* A user who may also detach HEAD.
NextDetached == Next \/ DetachHead

InitDetached ==
    /\ Fresh
    /\ faults = MaxFaults
    /\ scope = {<<"a">>}
    /\ probe = Idle

SpecDetached == InitDetached /\ [][NextDetached]_vars

\* A user who keeps a file named ".gogitignore" and changes execute bits.
NextAdd == Next \/ \E p \in Paths : UserChmod(p)

InitAdd ==
    /\ Fresh
    /\ faults = MaxFaults
    /\ scope = {<<".gogitignore">>, <<"a">>}
    /\ probe = Idle

SpecAdd == InitAdd /\ [][NextAdd]_vars

\* A user whose directory is named "g.gogit".
InitGogitDir ==
    /\ Fresh
    /\ faults = MaxFaults
    /\ scope = {<<"a">>, <<"g.gogit", "x">>}
    /\ probe = Idle

SpecGogitDir == InitGogitDir /\ [][Next]_vars

\* fileLevelMerge's resolution applied to any three path -> hash maps.
ProbePaths == {<<"a">>, <<"d", "x">>}

ProbeMaps == UNION {[D -> {HashBlob(c) : c \in Contents}] : D \in SUBSET ProbePaths}

InitResolve ==
    /\ Fresh
    /\ faults = MaxFaults
    /\ scope = {}
    /\ probe \in {[stage |-> "in", baseTree |-> b, currentTree |-> c, targetTree |-> t] :
                    b \in ProbeMaps, c \in ProbeMaps, t \in ProbeMaps}

Resolve ==
    /\ probe.stage = "in"
    /\ probe' = [stage |-> "out", baseTree |-> probe.baseTree,
                 currentTree |-> probe.currentTree, targetTree |-> probe.targetTree,
                 out |-> ResolveTrees(probe.baseTree, probe.currentTree, probe.targetTree)]
    /\ UNCHANGED <<disk, faults, edits, scope>>

SpecResolve == InitResolve /\ [][Resolve]_vars

\* ------------------------------------------------------------- index file
\* The index file byte by byte.  A byte is a number in 0..255 and a file a
\* sequence of bytes.  A uint32 is the pair of its 16-bit halves, high half
\* first.  An entry here has all six fields of index.Entry; its Hash is a
\* Go string, given as the sequence of its character codes, its Path a
\* sequence of name components as everywhere else.
indexMagic == <<71, 73, 68, 88>>

indexVersion == 1

HeaderLen == 12

SumLen == 20

EntryFixedLen == 38

Align == 8

Half == 256 * 256

U32(n) == <<n \div Half, n % Half>>

\* binary.Write of a uint32, big-endian.
PutU32(v) == <<v[1] \div 256, v[1] % 256, v[2] \div 256, v[2] % 256>>

\* binary.Write of uint16(n), big-endian.
PutU16(n) == <<(n % Half) \div 256, n % 256>>

\* The bytes of a name.
NameBytes(n) ==
    CASE n = ".gogitignore" -> <<46, 103, 111, 103, 105, 116, 105, 103, 110, 111, 114, 101>>
      [] n = "a" -> <<97>>
      [] n = "d" -> <<100>>
      [] n = "x" -> <<120>>
      [] n = "g.gogit" -> <<103, 46, 103, 111, 103, 105, 116>>

RECURSIVE PathBytes(_)
\* The bytes of a path string: its names joined by '/'.
PathBytes(p) ==
    IF p = <<>> THEN <<>>
    ELSE IF Len(p) = 1 THEN NameBytes(p[1])
    ELSE NameBytes(p[1]) \o <<47>> \o PathBytes(Tail(p))

\* encoding/hex: the value of a hex digit, 255 for any other character.
HexValue(c) ==
    IF c \in 48..57 THEN c - 48
    ELSE IF c \in 97..102 THEN c - 87
    ELSE IF c \in 65..70 THEN c - 55
    ELSE 255

RECURSIVE HexDecode(_)
\* hex.DecodeString with its error dropped: the bytes of the pairs of
\* digits before the first character that is no hex digit or has no
\* partner.
HexDecode(str) ==
    IF Len(str) < 2 THEN <<>>
    ELSE IF HexValue(str[1]) > 15 \/ HexValue(str[2]) > 15 THEN <<>>
    ELSE <<HexValue(str[1]) * 16 + HexValue(str[2])>> \o HexDecode(SubSeq(str, 3, Len(str)))

HexChar(v) == IF v < 10 THEN 48 + v ELSE 87 + v

HexCharUpper(v) == IF v < 10 THEN 48 + v ELSE 55 + v

\* HexEncode with upper-case digits.
HexEncodeUpper(bytes) ==
    [i \in 1..(2 * Len(bytes)) |->
        IF i % 2 = 1 THEN HexCharUpper(bytes[(i + 1) \div 2] \div 16)
        ELSE HexCharUpper(bytes[i \div 2] % 16)]

\* hex.EncodeToString: two lower-case digits for each byte.
HexEncode(bytes) ==
    [i \in 1..(2 * Len(bytes)) |->
        IF i % 2 = 1 THEN HexChar(bytes[(i + 1) \div 2] \div 16)
        ELSE HexChar(bytes[i \div 2] % 16)]

Zeros(n) == [i \in 1..n |-> 0]

\* Padding that brings the path alone, not the entry, to a multiple of Align.
PadLenOfPath(pathLen) == (Align - (pathLen % Align)) % Align

\* The padding after an entry whose path has pathLen bytes.
PadLen(pathLen) == (Align - ((EntryFixedLen + pathLen) % Align)) % Align

\* WriteIndex's loop body: the bytes of one entry.
EntryBytes(e) ==
    LET path == PathBytes(e.Path)
    IN  PutU32(e.Ctime) \o PutU32(e.Mtime) \o PutU32(e.Size) \o HexDecode(e.Hash)
        \o PutU32(e.Mode) \o PutU16(Len(path)) \o path \o Zeros(PadLen(Len(path)))

RECURSIVE WeightedSum(_, _, _, _)
\* The sum of w(i) * data[i] over the bytes lo..hi, modulo 256, with
\* w(i) = 1 when flat and w(i) = i otherwise.
WeightedSum(data, lo, hi, flat) ==
    IF lo > hi THEN 0
    ELSE IF lo = hi THEN ((IF flat THEN 1 ELSE lo % 256) * data[lo]) % 256
    ELSE LET mid == (lo + hi) \div 2
         IN  (WeightedSum(data, lo, mid, flat) + WeightedSum(data, mid + 1, hi, flat)) % 256

\* sha1.Sum stands as a 20-byte checksum that, as SHA-1 does for any two
\* files one can make, differs for two files that differ in one byte.
Sha1(data) ==
    LET s1 == WeightedSum(data, 1, Len(data), TRUE)
        s2 == WeightedSum(data, 1, Len(data), FALSE)
    IN  [j \in 1..SumLen |-> (j * s1 + s2) % 256]

RECURSIVE Concat(_)
Concat(ss) == IF ss = <<>> THEN <<>> ELSE Head(ss) \o Concat(Tail(ss))

\* WriteIndex: the file it writes for the entries it is given.
WriteIndexFile(entries) ==
    LET sorted == SortEntries(entries)
        body == indexMagic \o PutU32(U32(indexVersion)) \o PutU32(U32(Len(sorted)))
                \o Concat([i \in 1..Len(sorted) |-> EntryBytes(sorted[i])])
    IN  body \o Sha1(body)

\* binary.Read of a uint32 after pos bytes have been read: a short read
\* uses up the rest and leaves the value zero.
GetU32(data, pos) ==
    IF pos + 4 <= Len(data)
    THEN [v |-> <<data[pos + 1] * 256 + data[pos + 2], data[pos + 3] * 256 + data[pos + 4]>>,
          pos |-> pos + 4]
    ELSE [v |-> <<0, 0>>, pos |-> Len(data)]

\* binary.Read of a uint16.
GetU16(data, pos) ==
    IF pos + 2 <= Len(data)
    THEN [v |-> data[pos + 1] * 256 + data[pos + 2], pos |-> pos + 2]
    ELSE [v |-> 0, pos |-> Len(data)]

\* Reader.Read into a fresh buffer of n bytes: the buffer holds the bytes
\* v that were left of the file, then `fill` zeros.
GetBytes(data, pos, n) ==
    IF pos + n <= Len(data)
    THEN [v |-> SubSeq(data, pos + 1, pos + n), fill |-> 0, pos |-> pos + n]
    ELSE [v |-> SubSeq(data, pos + 1, Len(data)), fill |-> n - (Len(data) - pos),
          pos |-> Len(data)]

\* ReadIndex's loop body: the entry decoded after pos bytes.  Its path is
\* the bytes Path followed by Fill zero bytes.
GetEntry(data, pos) ==
    LET ctime == GetU32(data, pos)
        mtime == GetU32(data, ctime.pos)
        size == GetU32(data, mtime.pos)
        hash == GetBytes(data, size.pos, SumLen)
        mode == GetU32(data, hash.pos)
        pathLen == GetU16(data, mode.pos)
        path == GetBytes(data, pathLen.pos, pathLen.v)
        pad == GetBytes(data, path.pos, PadLen(pathLen.v))
    IN  [e |-> [Ctime |-> ctime.v, Mtime |-> mtime.v, Size |-> size.v,
                Hash |-> HexEncode(hash.v \o Zeros(hash.fill)), Mode |-> mode.v,
                Path |-> path.v, Fill |-> path.fill],
         pos |-> pad.pos]

RECURSIVE GetEntries(_, _, _, _)
\* ReadIndex's loop from entry k + 1 on, as far as the file has bytes: the
\* entries decoded after the end of the file are all zero and are left out.
GetEntries(data, pos, count, k) ==
    IF count = U32(k) \/ pos >= Len(data) THEN <<>>
    ELSE LET g == GetEntry(data, pos)
         IN  <<g.e>> \o GetEntries(data, g.pos, count, k + 1)

Decoded(count, entries) == [res |-> "ok", err |-> "", count |-> count, entries |-> entries]

IndexCorrupt(err) == [res |-> "corrupt", err |-> err, count |-> <<0, 0>>, entries |-> <<>>]

Panic(err) == [res |-> "panic", err |-> err, count |-> <<0, 0>>, entries |-> <<>>]

\* ReadIndex without the verification of the checksum.
ReadIndexNoSum(data) ==
    IF Len(data) < HeaderLen THEN IndexCorrupt("index file too short")
    ELSE IF SubSeq(data, 1, 4) # indexMagic THEN IndexCorrupt("invalid index magic")
    ELSE IF GetU32(data, 4).v # U32(indexVersion)
    THEN IndexCorrupt("unsupported index version")
    ELSE Decoded(GetU32(data, 8).v, GetEntries(data, HeaderLen, GetU32(data, 8).v, 0))

\* ReadIndex of an index file that exists: the index decoded (`count`
\* entries, those after `entries` all zero), an error, or a panic.  Memory
\* is taken to be large enough for `count` entries.
ReadIndex(data) ==
    IF Len(data) < HeaderLen THEN IndexCorrupt("index file too short")
    ELSE IF Len(data) < SumLen THEN Panic("slice bounds out of range")
    ELSE IF Sha1(SubSeq(data, 1, Len(data) - SumLen))
                # SubSeq(data, Len(data) - SumLen + 1, Len(data))
    THEN IndexCorrupt("index checksum mismatch")
    ELSE IF SubSeq(data, 1, 4) # indexMagic THEN IndexCorrupt("invalid index magic")
    ELSE IF GetU32(data, 4).v # U32(indexVersion)
    THEN IndexCorrupt("unsupported index version")
    ELSE Decoded(GetU32(data, 8).v, GetEntries(data, HeaderLen, GetU32(data, 8).v, 0))

\* The index on its own: entries added and removed in memory, the index
\* written, one byte of the file changed, the file read.
Hex40(c, d) == [i \in 1..(2 * SumLen) |-> IF i % 2 = 1 THEN c ELSE d]

IndexVersions ==
    {[Ctime |-> <<0, 1>>, Mtime |-> <<0, 258>>, Size |-> <<0, 3>>,
      Hash |-> Hex40(48, 97), Mode |-> U32(Mode644)],
     [Ctime |-> <<65535, 65535>>, Mtime |-> <<32768, 0>>, Size |-> <<1, 0>>,
      Hash |-> Hex40(102, 57), Mode |-> U32(Mode755)]}

IndexFilePaths == {<<"a">>, <<"d", "x">>, <<"g.gogit", "x">>}

IndexEntries ==
    {[Ctime |-> v.Ctime, Mtime |-> v.Mtime, Size |-> v.Size, Hash |-> v.Hash,
      Mode |-> v.Mode, Path |-> p] : v \in IndexVersions, p \in IndexFilePaths}

InitIndex ==
    /\ Fresh
    /\ faults = MaxFaults
    /\ scope = {}
    /\ probe = [stage |-> "mem", entries |-> <<>>]

IndexAdd(e) ==
    /\ probe.stage = "mem"
    /\ probe' = [probe EXCEPT !.entries = AddEntry(@, e)]
    /\ UNCHANGED <<disk, faults, edits, scope>>

IndexRemove(p) ==
    /\ probe.stage = "mem"
    /\ probe' = [probe EXCEPT !.entries = RemoveEntry(@, p)]
    /\ UNCHANGED <<disk, faults, edits, scope>>

IndexWrite ==
    /\ probe.stage = "mem"
    /\ probe' = [stage |-> "file", entries |-> probe.entries,
                 file |-> WriteIndexFile(probe.entries)]
    /\ UNCHANGED <<disk, faults, edits, scope>>

\* The values a changed byte is given.
ByteValues == {0, 1, 2, 255}

\* Someone changes one byte of the file WriteIndex wrote.
ChangeByte ==
    /\ probe.stage = "file"
    /\ \E i \in 1..Len(probe.file) :
        \E b \in ByteValues \ {probe.file[i]} :
            probe' = [stage |-> "changed", entries |-> probe.entries,
                      file |-> [probe.file EXCEPT ![i] = b]]
    /\ UNCHANGED <<disk, faults, edits, scope>>

\* Someone cuts the file down to its first n bytes.
Truncate ==
    /\ probe.stage \in {"file", "changed"}
    /\ \E n \in 0..(Len(probe.file) - 1) :
            probe' = [stage |-> "cut", entries |-> probe.entries,
                      file |-> SubSeq(probe.file, 1, n)]
    /\ UNCHANGED <<disk, faults, edits, scope>>

\* Someone sets the last twenty bytes to the checksum of the bytes before.
Resum ==
    /\ probe.stage \in {"changed", "cut"}
    /\ Len(probe.file) >= SumLen
    /\ probe' = [stage |-> "summed", entries |-> probe.entries,
                 file |-> SubSeq(probe.file, 1, Len(probe.file) - SumLen)
                          \o Sha1(SubSeq(probe.file, 1, Len(probe.file) - SumLen))]
    /\ UNCHANGED <<disk, faults, edits, scope>>

IndexRead ==
    /\ probe.stage \in {"file", "changed", "cut", "summed"}
    /\ probe' = [stage |-> "read", from |-> probe.stage, entries |-> probe.entries,
                 file |-> probe.file, out |-> ReadIndex(probe.file)]
    /\ UNCHANGED <<disk, faults, edits, scope>>

NextIndex ==
    \/ \E e \in IndexEntries : IndexAdd(e)
    \/ \E p \in IndexFilePaths : IndexRemove(p)
    \/ IndexWrite
    \/ ChangeByte
    \/ IndexRead

SpecIndex == InitIndex /\ [][NextIndex]_vars

\* Index files of any content: a written file with one byte changed, cut
\* short, its checksum set right again.
InitIndexFile ==
    /\ Fresh
    /\ faults = MaxFaults
    /\ scope = {}
    /\ probe \in {[stage |-> "file", entries |-> es, file |-> WriteIndexFile(es)] :
                    es \in {<<>>} \cup {<<e>> : e \in {x \in IndexEntries : x.Path = <<"a">>}}}

NextIndexFile ==
    \/ ChangeByte
    \/ Truncate
    \/ Resum
    \/ IndexRead

SpecIndexFile == InitIndexFile /\ [][NextIndexFile]_vars

\* The padding of an entry for every length a path may have in the 16-bit
\* length field: what WriteIndex writes after the path, and what ReadIndex
\* skips after reading the length back from the field.
MaxPathLen == Half - 1

InitPadding ==
    /\ Fresh
    /\ faults = MaxFaults
    /\ scope = {}
    /\ probe \in {[stage |-> "in", L |-> n] : n \in 0..MaxPathLen}

EntryPadding ==
    /\ probe.stage = "in"
    /\ \E v \in IndexVersions :
       \E e \in {[Ctime |-> v.Ctime, Mtime |-> v.Mtime, Size |-> v.Size, Hash |-> v.Hash,
                  Mode |-> v.Mode, Path |-> <<"a">>]} :
       \E field \in {PutU16(probe.L)} :
            probe' = [stage |-> "out", L |-> probe.L,
                      fixed |-> Len(EntryBytes(e)) - Len(PathBytes(e.Path))
                                    - PadLen(Len(PathBytes(e.Path))),
                      written |-> PadLen(probe.L),
                      pathLen |-> GetU16(field, 0).v,
                      skipped |-> PadLen(GetU16(field, 0).v)]
    /\ UNCHANGED <<disk, faults, edits, scope>>

SpecPadding == InitPadding /\ [][EntryPadding]_vars

\* ------------------------------------------------------------ object file
\* An object file byte by byte: a kind and a payload of bytes written by
\* WriteObject and read back by ReadObject.  The store maps a hash to the
\* bytes of its file.
KindBytes(kind) ==
    CASE kind = "blob" -> <<98, 108, 111, 98>>
      [] kind = "tree" -> <<116, 114, 101, 101>>
      [] kind = "commit" -> <<99, 111, 109, 109, 105, 116>>

RECURSIVE Decimal(_)
\* fmt's %d of a length.
Decimal(n) == IF n < 10 THEN <<48 + n>> ELSE Append(Decimal(n \div 10), 48 + (n % 10))

\* The header "<kind> <length>\0".
ObjectHeader(kind, content) == KindBytes(kind) \o <<32>> \o Decimal(Len(content)) \o <<0>>

AdlerBase == 65521

RECURSIVE AdlerSums(_, _, _, _)
\* The two running sums of Adler-32 from byte i on.
AdlerSums(raw, i, a, b) ==
    IF i > Len(raw) THEN <<a, b>>
    ELSE AdlerSums(raw, i + 1, (a + raw[i]) % AdlerBase,
                   (b + ((a + raw[i]) % AdlerBase)) % AdlerBase)

\* The Adler-32 checksum that ends a zlib stream, big-endian.
Adler32(raw) ==
    LET ab == AdlerSums(raw, 1, 1, 0)
    IN  <<ab[2] \div 256, ab[2] % 256, ab[1] \div 256, ab[1] % 256>>

zlibHeader == <<120, 156>>

\* zlib.Writer: the stream stands as its two header bytes, the data as they
\* are, and the checksum; the coding of the data in between is lossless.
Deflate(raw) == zlibHeader \o raw \o Adler32(raw)

\* zlib.Reader and io.ReadAll: the data of a well-formed stream.
Inflate(data) ==
    IF Len(data) < 6 \/ SubSeq(data, 1, 2) # zlibHeader THEN [ok |-> FALSE, raw |-> <<>>]
    ELSE LET raw == SubSeq(data, 3, Len(data) - 4)
         IN  IF Adler32(raw) # SubSeq(data, Len(data) - 3, Len(data))
             THEN [ok |-> FALSE, raw |-> <<>>]
             ELSE [ok |-> TRUE, raw |-> raw]

\* The position of the last byte c, 0 when there is none.
LastIndexByte(raw, c) ==
    IF \E i \in 1..Len(raw) : raw[i] = c
    THEN CHOOSE i \in 1..Len(raw) : raw[i] = c /\ \A j \in (i + 1)..Len(raw) : raw[j] # c
    ELSE 0

\* bytes.IndexByte: the position of the first byte c, 0 when there is none.
IndexByte(raw, c) ==
    IF \E i \in 1..Len(raw) : raw[i] = c
    THEN CHOOSE i \in 1..Len(raw) : raw[i] = c /\ \A j \in 1..(i - 1) : raw[j] # c
    ELSE 0

\* fmt.Sscanf(header, "%s %d"): the first word, when a space and a digit
\* follow it.
ScanHeader(header) ==
    LET sp == IndexByte(header, 32)
    IN  IF sp > 1 /\ sp < Len(header) /\ header[sp + 1] \in 48..57
        THEN [ok |-> TRUE, objType |-> SubSeq(header, 1, sp - 1)]
        ELSE [ok |-> FALSE, objType |-> <<>>]

\* WriteObject on a store of files: the hash, and the store with the file
\* written unless a file of that hash is there.
WriteObjectFile(store, kind, content) ==
    LET hash == HashObject(kind, content)
    IN  [hash |-> hash,
         store |-> IF hash \in DOMAIN store THEN store
                   ELSE (hash :> Deflate(ObjectHeader(kind, content) \o content)) @@ store]

ObjectRead(objType, content) == [ok |-> TRUE, objType |-> objType, content |-> content, err |-> ""]

ObjectError(err) == [ok |-> FALSE, objType |-> <<>>, content |-> <<>>, err |-> err]

\* ReadObject on a store of files.
ReadObject(store, hash) ==
    IF hash \notin DOMAIN store THEN ObjectError("object not found")
    ELSE LET z == Inflate(store[hash])
             nullIdx == IndexByte(z.raw, 0)
             scan == ScanHeader(SubSeq(z.raw, 1, nullIdx - 1))
         IN  IF ~z.ok THEN ObjectError("zlib")
             ELSE IF nullIdx = 0 THEN ObjectError("invalid object format")
             ELSE IF ~scan.ok THEN ObjectError("invalid object header")
             ELSE ObjectRead(scan.objType, SubSeq(z.raw, nullIdx + 1, Len(z.raw)))

\* Payloads are the byte strings of up to MaxPayload bytes over a NUL, a
\* space, a digit and a letter.
PayloadBytes == {0, 32, 48, 98}

Payloads == UNION {[1..n -> PayloadBytes] : n \in 0..MaxPayload}

Kinds == {"blob", "tree", "commit"}

InitObject ==
    /\ Fresh
    /\ faults = MaxFaults
    /\ scope = {}
    /\ probe \in {[stage |-> "in", kind |-> k, x |-> x, writes |-> 0,
                   store |-> [h \in {} |-> <<>>]] : k \in Kinds, x \in Payloads}

\* WriteObject(kind, x), a first and a second time.
ObjectWrite ==
    /\ probe.stage \in {"in", "stored"}
    /\ probe.writes < 2
    /\ \E w \in {WriteObjectFile(probe.store, probe.kind, probe.x)} :
            probe' = [stage |-> "stored", kind |-> probe.kind, x |-> probe.x,
                      writes |-> probe.writes + 1, store |-> w.store, hash |-> w.hash]
    /\ UNCHANGED <<disk, faults, edits, scope>>

\* ReadObject of the hash WriteObject returned.
ObjectReadBack ==
    /\ probe.stage = "stored"
    /\ probe' = [stage |-> "out", kind |-> probe.kind, x |-> probe.x,
                 writes |-> probe.writes, store |-> probe.store, hash |-> probe.hash,
                 out |-> ReadObject(probe.store, probe.hash)]
    /\ UNCHANGED <<disk, faults, edits, scope>>

NextObject == ObjectWrite \/ ObjectReadBack

SpecObject == InitObject /\ [][NextObject]_vars

\* --------------------------------------------------- concurrent writers
\* WriteObject called by several processes at once on one store of files.
\* A call is its system calls, one step each: os.Stat, os.MkdirAll, and
\* os.WriteFile as an open that creates or truncates the file followed by
\* the data written in two pieces at the writer's own offset.
Writers == 1..MaxWriters

\* The payloads the writers choose from.
WriterPayloads == {<<>>, <<98>>, <<0, 98, 32>>}

\* The file a hash is stored in, and its directory: objects/<2 hex>/<38 hex>.
\* Two hashes may begin with the same two digits.
ObjectDirOf(hash, shared) == IF shared THEN <<"xx">> ELSE <<"dir", hash>>

\* A write of `bytes` appended to the file, wherever the writer stands.
WriteAppend(file, off, bytes) == file \o bytes

\* A write of `bytes` at the offset off of a file: the file grows as
\* needed, a gap reads as zeros.
WriteAt(file, off, bytes) ==
    LET n == IF off + Len(bytes) > Len(file) THEN off + Len(bytes) ELSE Len(file)
    IN  [i \in 1..n |-> IF i > off /\ i <= off + Len(bytes) THEN bytes[i - off]
                        ELSE IF i <= Len(file) THEN file[i]
                        ELSE 0]

\* The bytes WriteObject hands to os.WriteFile.
ObjectFileBytes(kind, content) == Deflate(ObjectHeader(kind, content) \o content)

\* The first piece of a write is the first half of the data.
FirstPiece(data) == SubSeq(data, 1, (Len(data) + 1) \div 2)
SecondPiece(data) == SubSeq(data, (Len(data) + 1) \div 2 + 1, Len(data))

InitWriters ==
    /\ Fresh
    /\ faults = MaxFaults
    /\ scope = {}
    /\ probe \in {[stage |-> "writers", store |-> [h \in {} |-> <<>>], made |-> {},
                   shared |-> sh,
                   w |-> [i \in Writers |-> [pc |-> "stat", x |-> xs[i], off |-> 0]]] :
                    sh \in BOOLEAN, xs \in [Writers -> WriterPayloads]}

WriterHash(i) == HashObject("blob", probe.w[i].x)

\* os.Stat(objPath): the call returns at once when the file is there.
WriterStat(i) ==
    /\ probe.stage = "writers"
    /\ probe.w[i].pc = "stat"
    /\ probe' = [probe EXCEPT !.w[i].pc =
                    IF WriterHash(i) \in DOMAIN probe.store THEN "done" ELSE "mkdir"]
    /\ UNCHANGED <<disk, faults, edits, scope>>

\* os.MkdirAll(filepath.Dir(objPath)).
WriterMkdir(i) ==
    /\ probe.stage = "writers"
    /\ probe.w[i].pc = "mkdir"
    /\ probe' = [probe EXCEPT !.w[i].pc = "open",
                              !.made = @ \cup {ObjectDirOf(WriterHash(i), probe.shared)}]
    /\ UNCHANGED <<disk, faults, edits, scope>>

\* os.WriteFile: open with O_CREATE and O_TRUNC.
WriterOpen(i) ==
    /\ probe.stage = "writers"
    /\ probe.w[i].pc = "open"
    /\ ObjectDirOf(WriterHash(i), probe.shared) \in probe.made
    /\ probe' = [probe EXCEPT !.w[i].pc = "write", !.w[i].off = 0,
                              !.store = (WriterHash(i) :> <<>>) @@ @]
    /\ UNCHANGED <<disk, faults, edits, scope>>

\* os.WriteFile: the data, a piece at a time.
WriterWrite(i) ==
    /\ probe.stage = "writers"
    /\ probe.w[i].pc \in {"write", "rest"}
    /\ \E data \in {ObjectFileBytes("blob", probe.w[i].x)} :
       \E piece \in {IF probe.w[i].pc = "write" THEN FirstPiece(data) ELSE SecondPiece(data)} :
            probe' = [probe EXCEPT
                        !.w[i].pc = IF probe.w[i].pc = "write" THEN "rest" ELSE "done",
                        !.w[i].off = @ + Len(piece),
                        !.store[WriterHash(i)] = WriteAt(@, probe.w[i].off, piece)]
    /\ UNCHANGED <<disk, faults, edits, scope>>

NextWriters ==
    \/ \E i \in Writers : WriterStat(i)
    \/ \E i \in Writers : WriterMkdir(i)
    \/ \E i \in Writers : WriterOpen(i)
    \/ \E i \in Writers : WriterWrite(i)

SpecWriters == InitWriters /\ [][NextWriters]_vars

\* ------------------------------------------------------- trees on their own
\* BuildTreeFromIndex and FlattenTree applied to any map from paths to blob
\* hashes, one path being a directory of others.
TreePaths == {<<"a">>, <<"d">>, <<"d", "a">>, <<"d", "x">>, <<"g.gogit", "x">>}

TreeMaps == UNION {[D -> {HashBlob(c) : c \in Contents}] : D \in SUBSET TreePaths}

\* The index that holds exactly m, as ReadIndex returns it.
IndexOf(m) ==
    LET order == CHOOSE o \in Orders(DOMAIN m) : TRUE
    IN  SortEntries([i \in 1..Len(order) |-> Entry(order[i], m[order[i]], Mode644)])

\* BuildTreeFromIndex on an empty store, then FlattenTree of the root.
BuildThenFlatten(m) ==
    IF BuildPanics(IndexOf(m)) THEN [res |-> "panic", m |-> EmptyMap]
    ELSE LET tree == BuildTreeFromIndex(IndexOf(m))
             built == Complete([objects |-> [h \in {} |-> Stored("blob", 0)]], tree.writes)
             flat == FlattenTree(built.s.objects, tree.hash, <<>>)
         IN  IF built.end = "done" /\ flat.ok THEN [res |-> "ok", m |-> flat.m]
             ELSE [res |-> "err", m |-> EmptyMap]

InitTree ==
    /\ Fresh
    /\ faults = MaxFaults
    /\ scope = {}
    /\ probe \in {[stage |-> "in", m |-> m] : m \in TreeMaps}

TreeRoundTrip ==
    /\ probe.stage = "in"
    /\ probe' = [stage |-> "out", m |-> probe.m, out |-> BuildThenFlatten(probe.m)]
    /\ UNCHANGED <<disk, faults, edits, scope>>

SpecTree == InitTree /\ [][TreeRoundTrip]_vars

\* ------------------------------------------------------------------- diff
\* A line of text is a number; an old file and a new file are sequences of
\* lines.  A diff line is its operation, " ", "+" or "-", and its text.
contextLines == 3

DiffLine(op, text) == [op |-> op, text |-> text]

RECURSIVE LCSRow(_, _, _, _, _)
\* dp[i][0..j] of computeLCS, from the row dp[i-1]; dp[i][j] is cell j + 1.
LCSRow(a, b, prev, i, j) ==
    IF j = 0 THEN <<0>>
    ELSE LET row == LCSRow(a, b, prev, i, j - 1)
             cell == IF a[i] = b[j] THEN prev[j] + 1
                     ELSE IF prev[j + 1] >= row[j] THEN prev[j + 1]
                     ELSE row[j]
         IN  Append(row, cell)

RECURSIVE LCSRows(_, _, _)
LCSRows(a, b, i) ==
    IF i = 0 THEN <<[j \in 1..(Len(b) + 1) |-> 0]>>
    ELSE LET rows == LCSRows(a, b, i - 1)
         IN  Append(rows, LCSRow(a, b, rows[i], i, Len(b)))

\* computeLCS: the table of the lengths of the longest common subsequences;
\* dp[i][j] is computeLCS(a, b)[i + 1][j + 1].
computeLCS(a, b) == LCSRows(a, b, Len(a))

RECURSIVE Backtrack(_, _, _, _, _)
\* The backtracking loop of buildHunks from (i, j), its result reversed:
\* the diff operations in file order.
Backtrack(oldLines, newLines, dp, i, j) ==
    IF i = 0 /\ j = 0 THEN <<>>
    ELSE IF i > 0 /\ j > 0 /\ oldLines[i] = newLines[j]
    THEN Append(Backtrack(oldLines, newLines, dp, i - 1, j - 1), DiffLine(" ", oldLines[i]))
    ELSE IF j > 0 /\ (i = 0 \/ dp[i + 1][j] >= dp[i][j + 1])
    THEN Append(Backtrack(oldLines, newLines, dp, i, j - 1), DiffLine("+", newLines[j]))
    ELSE Append(Backtrack(oldLines, newLines, dp, i - 1, j), DiffLine("-", oldLines[i]))

\* flushHunk: the header and the lines go to the result, when there are
\* lines.
flushHunk(st) ==
    IF Len(st.hunkLines) > 0
    THEN [st EXCEPT !.result = Append(@, [hunkOldStart |-> st.hunkOldStart,
                                          hunkOldCount |-> st.hunkOldCount,
                                          hunkNewStart |-> st.hunkNewStart,
                                          hunkNewCount |-> st.hunkNewCount,
                                          hunkLines |-> st.hunkLines]),
                    !.hunkLines = <<>>, !.hunkOldCount = 0, !.hunkNewCount = 0]
    ELSE st

\* The unchanged lines diff[from..to], added to the hunk as context.
AddContext(st, diff, from, to) ==
    LET n == IF to >= from THEN to - from + 1 ELSE 0
    IN  [st EXCEPT !.hunkLines = @ \o [k \in 1..n |-> DiffLine(" ", diff[from + k - 1].text)],
                   !.hunkOldCount = @ + n, !.hunkNewCount = @ + n]

\* One pass of the loop over diff, for the line idx (from 1; lastChange is
\* 0 when there has been no change yet).
HunkStep(st, diff, idx) ==
    LET d == diff[idx]
        start == IF idx - contextLines < 1 THEN 1 ELSE idx - contextLines
        tmpOld == 1 + Cardinality({k \in 1..(start - 1) : diff[k].op # "+"})
        tmpNew == 1 + Cardinality({k \in 1..(start - 1) : diff[k].op # "-"})
        opened == IF st.lastChange = 0 \/ idx - st.lastChange > 2 * contextLines
                  THEN AddContext([flushHunk(st) EXCEPT !.hunkOldStart = tmpOld,
                                                        !.hunkNewStart = tmpNew,
                                                        !.hunkOldCount = 0,
                                                        !.hunkNewCount = 0],
                                  diff, start, idx - 1)
                  ELSE AddContext(st, diff, st.lastChange + 1, idx - 1)
    IN  IF d.op = " " THEN st
        ELSE [opened EXCEPT !.lastChange = idx,
                            !.hunkLines = Append(@, d),
                            !.hunkOldCount = IF d.op = "-" THEN @ + 1 ELSE @,
                            !.hunkNewCount = IF d.op = "-" THEN @ ELSE @ + 1]

RECURSIVE HunkLoop(_, _)
HunkLoop(diff, n) ==
    IF n = 0
    THEN [result |-> <<>>, hunkLines |-> <<>>, hunkOldStart |-> 0, hunkNewStart |-> 0,
          hunkOldCount |-> 0, hunkNewCount |-> 0, lastChange |-> 0]
    ELSE HunkStep(HunkLoop(diff, n - 1), diff, n)

\* The hunks of a diff: the loop, then the trailing context of the last
\* change and the last flush.
HunksOf(diff) ==
    LET st == HunkLoop(diff, Len(diff))
        end == IF st.lastChange + contextLines > Len(diff) THEN Len(diff)
               ELSE st.lastChange + contextLines
    IN  IF st.lastChange > 0
        THEN flushHunk(AddContext(st, diff, st.lastChange + 1, end)).result
        ELSE st.result

\* buildHunks: the diff operations and the hunks made of them.
buildHunks(oldLines, newLines, dp) ==
    LET diff == Backtrack(oldLines, newLines, dp, Len(oldLines), Len(newLines))
    IN  [diff |-> diff, hunks |-> HunksOf(diff)]

\* The old file has the lines 1..MaxLines; in the new file each line is
\* kept, dropped, or replaced by the line 0.
Edits == [1..MaxLines -> {"keep", "drop", "change"}]

RECURSIVE Edited(_, _)
Edited(e, n) ==
    IF n = 0 THEN <<>>
    ELSE Edited(e, n - 1) \o (CASE e[n] = "keep" -> <<n>>
                                [] e[n] = "drop" -> <<>>
                                [] e[n] = "change" -> <<0>>)

InitDiff ==
    /\ Fresh
    /\ faults = MaxFaults
    /\ scope = {}
    /\ probe \in {[stage |-> "in", oldLines |-> [i \in 1..MaxLines |-> i],
                   newLines |-> Edited(e, MaxLines)] : e \in Edits}

\* printUnifiedDiff for a file that is still there.
UnifiedDiff ==
    /\ probe.stage = "in"
    /\ probe' = [stage |-> "out", oldLines |-> probe.oldLines, newLines |-> probe.newLines,
                 out |-> buildHunks(probe.oldLines, probe.newLines,
                                    computeLCS(probe.oldLines, probe.newLines))]
    /\ UNCHANGED <<disk, faults, edits, scope>>

SpecDiff == InitDiff /\ [][UnifiedDiff]_vars

\* ------------------------------------------------------------- properties
\* The commit objects in a store.
Commits(objs) == {h \in DOMAIN objs : objs[h].kind = "commit"}

RECURSIVE Ancestors(_, _)
\* The commits on the first-parent walk from h, h included.
Ancestors(objs, h) ==
    IF h = NoHash \/ h \notin DOMAIN objs THEN {}
    ELSE {h} \cup (IF objs[h].content.parents = <<>> THEN {}
                   ELSE Ancestors(objs, objs[h].content.parents[1]))

RECURSIVE NearestIn(_, _, _)
\* The first commit of S on the first-parent walk from h, or the empty hash.
NearestIn(objs, h, S) ==
    IF h = NoHash \/ h \notin DOMAIN objs THEN NoHash
    ELSE IF h \in S THEN h
    ELSE IF objs[h].content.parents = <<>> THEN NoHash
    ELSE NearestIn(objs, objs[h].content.parents[1], S)

\* The merge base: the first commit on the walk from `current` that is a
\* first-parent ancestor of `target`.
MergeBase(objs, current, target) == NearestIn(objs, current, Ancestors(objs, target))

\* The commit a branch names, or the empty hash.
Tip(s, b) == IF b \in DOMAIN s.refs THEN s.refs[b] ELSE NoHash

OnBranch(s) == s.HEAD[1] = "ref"

\* The commit of the current branch; the empty hash when there is none.
CurrentTip(s) == IF OnBranch(s) THEN Tip(s, s.HEAD[2]) ELSE NoHash

\* The path -> hash map of a commit's tree.
TreeOf(objs, h) == CommitTree(objs, h).m

\* Merge's preconditions hold for `merge b`.
Mergeable(s, b) == OnBranch(s) /\ CurrentTip(s) # NoHash /\ Tip(s, b) # NoHash

\* `merge b` is a three-way merge: neither side is a first-parent ancestor
\* of the other.
ThreeWay(s, b) ==
    /\ Mergeable(s, b)
    /\ CurrentTip(s) \notin Ancestors(s.objects, Tip(s, b))
    /\ Tip(s, b) \notin Ancestors(s.objects, CurrentTip(s))

\* The table's verdict on one path: all three hashes pairwise different.
TableConflict(baseH, curH, tarH) == curH # tarH /\ curH # baseH /\ tarH # baseH

\* The table's hash for a path that is no conflict; the empty hash is "no
\* entry".
TableHash(baseH, curH, tarH) ==
    IF curH = tarH THEN curH ELSE IF curH = baseH THEN tarH ELSE curH

\* The paths of a three-way merge of b that the table calls conflicts.
ConflictPaths(s, b) ==
    LET cur == TreeOf(s.objects, CurrentTip(s))
        tar == TreeOf(s.objects, Tip(s, b))
        base == TreeOf(s.objects, MergeBase(s.objects, CurrentTip(s), Tip(s, b)))
    IN  {p \in DOMAIN base \cup DOMAIN cur \cup DOMAIN tar :
            TableConflict(Lookup(base, p), Lookup(cur, p), Lookup(tar, p))}

\* The merged map the table gives for a three-way merge of b.
TableMerged(s, b) ==
    LET cur == TreeOf(s.objects, CurrentTip(s))
        tar == TreeOf(s.objects, Tip(s, b))
        base == TreeOf(s.objects, MergeBase(s.objects, CurrentTip(s), Tip(s, b)))
        h(p) == TableHash(Lookup(base, p), Lookup(cur, p), Lookup(tar, p))
    IN  [p \in {q \in DOMAIN base \cup DOMAIN cur \cup DOMAIN tar : h(q) # NoHash} |-> h(p)]

\* Every way `merge b` can run to its end from s: Merge's result, and the
\* state and the log of writes it leaves, one for each order the map ranges
\* can take.
MergeRuns(s, b) ==
    LET c == MergeCase(s, b)
        w == MergeWrites(s, c)
    IN  {[res |-> c.res,
          run |-> Complete(s, MergePlan(s, b, c, writeOrder, delOrder).effs)] :
            writeOrder \in Orders(w.writes), delOrder \in Orders(w.dels)}

\* Merge returned nil.
MergeOk(o) == o.res \in {"uptodate", "ff", "merged"} /\ o.run.end = "done"

\* Every way `checkout b` can run to its end from s.
CheckoutRuns(s, b) ==
    LET t == CheckoutTrees(s, b)
    IN  {[res |-> CheckoutPlan(s, b, t, delOrder, writeOrder).res,
          run |-> Complete(s, CheckoutPlan(s, b, t, delOrder, writeOrder).effs)] :
            delOrder \in Orders(DOMAIN t.currentTree \ DOMAIN t.targetTree),
            writeOrder \in Orders(DOMAIN t.targetTree)}

\* Checkout returned nil.
CheckoutOk(o) == o.res = "ok" /\ o.run.end = "done"

\* C1: when a three-way merge has at least one conflicting path, Merge
\* returns the conflict error and HEAD, every branch ref and the set of
\* commit objects stay as they were.
MergeConflictChangesNothing ==
    \A b \in Branches :
        (ThreeWay(State, b) /\ ConflictPaths(State, b) # {}) =>
            \A o \in MergeRuns(State, b) :
                /\ o.res = "conflict"
                /\ o.run.s.HEAD = HEAD
                /\ o.run.s.refs = refs
                /\ Commits(o.run.s.objects) = Commits(objects)

\* A three-way merge with a conflicting path is at hand, and Merge refuses.
MergeConflictReached ==
    \E b \in Branches :
        /\ ThreeWay(State, b)
        /\ ConflictPaths(State, b) # {}
        /\ \E o \in MergeRuns(State, b) : o.res = "conflict"

\* The place of a write in the order store, index, references.
Stage(w) == CASE w = "obj" -> 1 [] w = "idx" -> 2 [] w = "ref" -> 3

WritesOrdered(log) ==
    \A i, j \in 1..Len(log) : i < j => Stage(log[i]) <= Stage(log[j])

\* C2: in every command, every write to the object store comes before
\* every write to the index file, and every write to the index file before
\* every write to a branch ref or HEAD.
ObjectsThenIndexThenRefs ==
    /\ \A p \in Paths \cup Dirs \cup {<<>>} :
            WritesOrdered(Complete(State, AddEffects(State, p)).log)
    /\ \A m \in Messages :
            WritesOrdered(Complete(State, CommitPlan(State, m).effs).log)
    /\ \A b \in Branches :
            /\ WritesOrdered(Complete(State, BranchPlan(State, b).effs).log)
            /\ \A o \in CheckoutRuns(State, b) : WritesOrdered(o.run.log)
            /\ \A o \in MergeRuns(State, b) : WritesOrdered(o.run.log)

\* C3: every branch ref names a commit object of the store, also in the
\* states a command leaves when it stops between two of its writes.
RefsNameStoredCommits == \A b \in DOMAIN refs : refs[b] \in Commits(objects)

\* A command has stopped after writing a commit object and before writing
\* the ref: the commit is in the store, no ref leads to it, refs exist.
StoppedBeforeRef ==
    /\ faults > 0
    /\ DOMAIN refs # {}
    /\ \E h \in Commits(objects) :
            \A b \in DOMAIN refs : h \notin Ancestors(objects, refs[b])

\* C4: for every path of base, current and target, an absent path counting
\* as the empty hash: equal current and target hashes keep that hash; else
\* a current hash equal to the base takes the target's; else a target hash
\* equal to the base keeps the current's; else the path is a conflict.  An
\* empty result is no entry.  The same change or a deletion on both sides
\* is no conflict; a deletion on one side against a modification on the
\* other is one.
ResolutionFollowsTable ==
    probe.stage = "out" =>
        LET base == probe.baseTree
            cur == probe.currentTree
            tar == probe.targetTree
            all == DOMAIN base \cup DOMAIN cur \cup DOMAIN tar
            baseH(p) == Lookup(base, p)
            curH(p) == Lookup(cur, p)
            tarH(p) == Lookup(tar, p)
            merged == probe.out.mergedTree
        IN  /\ DOMAIN merged \subseteq all
            /\ probe.out.conflicts \subseteq all
            /\ probe.out.hasConflict <=> probe.out.conflicts # {}
            /\ \A p \in all :
                /\ p \in probe.out.conflicts <=> TableConflict(baseH(p), curH(p), tarH(p))
                /\ curH(p) = tarH(p) => Lookup(merged, p) = curH(p)
                /\ (curH(p) # tarH(p) /\ curH(p) = baseH(p)) => Lookup(merged, p) = tarH(p)
                /\ (curH(p) # tarH(p) /\ curH(p) # baseH(p) /\ tarH(p) = baseH(p))
                        => Lookup(merged, p) = curH(p)
                /\ (curH(p) = tarH(p) /\ curH(p) # baseH(p)) => p \notin probe.out.conflicts
                /\ (curH(p) = NoHash /\ tarH(p) = NoHash) =>
                        (p \notin probe.out.conflicts /\ p \notin DOMAIN merged)
                /\ (baseH(p) # NoHash /\ curH(p) = NoHash /\ tarH(p) \notin {NoHash, baseH(p)})
                        => p \in probe.out.conflicts
                /\ (baseH(p) # NoHash /\ tarH(p) = NoHash /\ curH(p) \notin {NoHash, baseH(p)})
                        => p \in probe.out.conflicts

\* The resolution has run on maps in which one side deleted a path the
\* other modified, while another path was changed by the target alone.
ResolutionReached ==
    /\ probe.stage = "out"
    /\ \E p, q \in DOMAIN probe.baseTree :
        /\ p \notin DOMAIN probe.currentTree
        /\ p \in DOMAIN probe.targetTree
        /\ probe.targetTree[p] # probe.baseTree[p]
        /\ q \in DOMAIN probe.currentTree
        /\ q \in DOMAIN probe.targetTree
        /\ probe.currentTree[q] = probe.baseTree[q]
        /\ probe.targetTree[q] # probe.baseTree[q]
        /\ probe.out.mergedTree[q] = probe.targetTree[q]

\* C5: when the current commit differs from the target commit and is on
\* the first-parent walk from it, a successful merge leaves the current
\* branch ref naming the target commit, adds no commit object, and leaves
\* HEAD symbolic on the current branch.
FastForwardMovesRef ==
    \A b \in Branches :
        (/\ Mergeable(State, b)
         /\ CurrentTip(State) # Tip(State, b)
         /\ CurrentTip(State) \in Ancestors(objects, Tip(State, b))) =>
            \A o \in MergeRuns(State, b) :
                MergeOk(o) =>
                    /\ o.run.s.refs[HEAD[2]] = Tip(State, b)
                    /\ Commits(o.run.s.objects) = Commits(objects)
                    /\ o.run.s.HEAD = SymbolicHead(HEAD[2])

\* A fast-forward is at hand and succeeds, moving the current branch ref.
FastForwardReached ==
    \E b \in Branches :
        /\ Mergeable(State, b)
        /\ CurrentTip(State) # Tip(State, b)
        /\ CurrentTip(State) \in Ancestors(objects, Tip(State, b))
        /\ \E o \in MergeRuns(State, b) :
            /\ MergeOk(o)
            /\ o.run.s.refs[HEAD[2]] # refs[HEAD[2]]

\* C6: when the target branch names the commit of the current branch, or a
\* commit reachable from it by first-parent steps, merge succeeds as
\* "already up to date" and changes no ref, no object, nothing in the index
\* and no file of the working tree.
UpToDateChangesNothing ==
    \A b \in Branches :
        (/\ Mergeable(State, b)
         /\ Tip(State, b) \in Ancestors(objects, CurrentTip(State))) =>
            \A o \in MergeRuns(State, b) :
                /\ o.res = "uptodate"
                /\ MergeOk(o)
                /\ o.run.s = State

\* The target is strictly behind the current branch on its first-parent
\* walk, with a working tree that differs from the current commit.
UpToDateReached ==
    \E b \in Branches :
        /\ Mergeable(State, b)
        /\ Tip(State, b) # CurrentTip(State)
        /\ Tip(State, b) \in Ancestors(objects, CurrentTip(State))
        /\ \E p \in DOMAIN TreeOf(objects, CurrentTip(State)) : p \notin DOMAIN files
        /\ \E o \in MergeRuns(State, b) : o.res = "uptodate"

\* C7: merge fails and changes no ref, no object, nothing in the index and
\* no file of the working tree when HEAD is detached, when the current
\* branch has no commit, and when the target branch does not exist.
MergePreconditionsChangeNothing ==
    \A b \in Branches :
        ~Mergeable(State, b) =>
            \A o \in MergeRuns(State, b) :
                /\ o.res \in {"detached", "nocommits", "notfound"}
                /\ ~MergeOk(o)
                /\ o.run.s = State

\* HEAD is detached at one commit while a branch names another, and Merge
\* refuses.
DetachedMergeReached ==
    /\ ~OnBranch(State)
    /\ \E b \in DOMAIN refs :
        /\ refs[b] # HEAD
        /\ \E o \in MergeRuns(State, b) : o.res = "detached"

\* C8: after a successful three-way merge of branch b into the current
\* branch: the current branch names a new commit with the parents
\* <<tip of the current branch before, tip of b>>, the message
\* "Merge branch 'b' into <current>" and a tree that flattens to the merged
\* map; the ref of b and HEAD are as before; the stored index maps the
\* merged paths to the merged hashes; every merged path is a file of the
\* working tree and no path of the current tree that the merge dropped is.
ThreeWayMergeResult ==
    \A b \in Branches :
        (ThreeWay(State, b) /\ ConflictPaths(State, b) = {}) =>
            \A o \in MergeRuns(State, b) :
                MergeOk(o) =>
                    LET after == o.run.s
                        merged == TableMerged(State, b)
                        dropped == DOMAIN TreeOf(objects, CurrentTip(State)) \ DOMAIN merged
                        new == after.refs[HEAD[2]]
                    IN  /\ new \in Commits(after.objects) \ Commits(objects)
                        /\ after.objects[new].content.parents =
                                <<CurrentTip(State), Tip(State, b)>>
                        /\ after.objects[new].content.msg =
                                <<"Merge branch '", b, "' into ", HEAD[2]>>
                        /\ CommitTree(after.objects, new) = [ok |-> TRUE, m |-> merged]
                        /\ after.refs[b] = refs[b]
                        /\ b # HEAD[2]
                        /\ after.HEAD = HEAD
                        /\ IndexMap(after.index) = merged
                        /\ \A p \in DOMAIN merged :
                                /\ p \in DOMAIN after.files
                                /\ HashBlob(after.files[p].content) = merged[p]
                        /\ \A p \in dropped : p \notin DOMAIN after.files

\* A three-way merge has been made that dropped a path of the branch it
\* was made on: the branch names a commit with two parents, the tree of
\* the first has a path that the merged tree and the working tree have not.
ThreeWayMergeReached ==
    /\ OnBranch(State)
    /\ CurrentTip(State) \in Commits(objects)
    /\ Len(objects[CurrentTip(State)].content.parents) = 2
    /\ \E p \in DOMAIN TreeOf(objects, objects[CurrentTip(State)].content.parents[1]) :
            /\ p \notin DOMAIN TreeOf(objects, CurrentTip(State))
            /\ p \notin DOMAIN files
    /\ IndexMap(index) = TreeOf(objects, CurrentTip(State))

\* C9: after one successful `checkout b`, a second `checkout b` leaves
\* HEAD, the index and the working tree as the first left them.
CheckoutIdempotent ==
    \A b \in Branches :
        \A o \in CheckoutRuns(State, b) :
            CheckoutOk(o) =>
                \A again \in CheckoutRuns(o.run.s, b) :
                    /\ again.run.s.HEAD = o.run.s.HEAD
                    /\ again.run.s.index = o.run.s.index
                    /\ again.run.s.files = o.run.s.files
                    /\ again.run.s.dirs = o.run.s.dirs

\* A checkout that rewrites the working tree succeeds, and so does the
\* checkout of the same branch after it.
CheckoutTwiceReached ==
    \E b \in Branches :
        \E o \in CheckoutRuns(State, b) :
            /\ CheckoutOk(o)
            /\ o.run.s.files # files
            /\ o.run.s.HEAD # HEAD
            /\ \E again \in CheckoutRuns(o.run.s, b) : CheckoutOk(again)

\* C10: after a successful checkout of a branch b whose commit is not the
\* one HEAD resolved to: HEAD is "ref: refs/heads/b"; the stored index maps
\* the paths of the tree of b's commit to its hashes; every path of that
\* tree is a file with the content of its blob; every path of the previous
\* commit's tree that is not in b's tree is gone from the working tree, and
\* so is every directory above it that was left empty.
CheckoutResult ==
    \A b \in Branches :
        (Tip(State, b) # NoHash /\ Tip(State, b) # ResolveHead(State)) =>
            \A o \in CheckoutRuns(State, b) :
                CheckoutOk(o) =>
                    LET after == o.run.s
                        tree == TreeOf(objects, Tip(State, b))
                        previous == TreeOf(objects, ResolveHead(State))
                    IN  /\ after.HEAD = SymbolicHead(b)
                        /\ IndexMap(after.index) = tree
                        /\ \A p \in DOMAIN tree :
                                /\ p \in DOMAIN after.files
                                /\ HashBlob(after.files[p].content) = tree[p]
                        /\ \A p \in DOMAIN previous \ DOMAIN tree :
                                /\ p \notin DOMAIN after.files
                                /\ \A d \in Ancestry(Dir(p)) :
                                        d \in after.dirs => ~DirEmpty(after, d)

\* C11: when the commit of branch b is the commit HEAD resolves to,
\* `checkout b` succeeds and changes HEAD to "ref: refs/heads/b" and nothing
\* else: the index (staged entries included), the working tree, every
\* branch ref and the object store are as before.
SameCommitCheckoutOnlyMovesHead ==
    \A b \in Branches :
        (Tip(State, b) # NoHash /\ Tip(State, b) = ResolveHead(State)) =>
            \A o \in CheckoutRuns(State, b) :
                /\ CheckoutOk(o)
                /\ o.run.s = [State EXCEPT !.HEAD = SymbolicHead(b)]

\* Another branch names the commit HEAD resolves to, while the index holds
\* an entry that this commit's tree has not and the working tree is not
\* the commit's either.
SameCommitCheckoutReached ==
    \E b \in Branches :
        /\ Tip(State, b) # NoHash
        /\ Tip(State, b) = ResolveHead(State)
        /\ HEAD # SymbolicHead(b)
        /\ IndexMap(index) # TreeOf(objects, ResolveHead(State))
        /\ \E p \in DOMAIN TreeOf(objects, ResolveHead(State)) : p \notin DOMAIN files
        /\ \E o \in CheckoutRuns(State, b) : o.run.s.HEAD # HEAD

\* C12: `checkout b` returns the "not found" error when refs/heads/b does
\* not exist, and then HEAD, the index, the working tree, every ref and
\* the object store are as before.
CheckoutMissingBranchChangesNothing ==
    \A b \in Branches :
        Tip(State, b) = NoHash =>
            \A o \in CheckoutRuns(State, b) :
                /\ o.res = "notfound"
                /\ ~CheckoutOk(o)
                /\ o.run.s = State

\* A branch is missing while another exists with a commit, the index has
\* entries and the working tree has files.
CheckoutMissingBranchReached ==
    \E b \in Branches :
        /\ Tip(State, b) = NoHash
        /\ ResolveHead(State) # NoHash
        /\ Len(index) > 0
        /\ DOMAIN files # {}
        /\ \E o \in CheckoutRuns(State, b) : o.res = "notfound"

\* C13: Commit with an index of zero entries returns "nothing to commit",
\* writes no object and leaves HEAD and every branch ref as they were.
EmptyIndexCommitChangesNothing ==
    \A m \in Messages :
        Len(index) = 0 =>
            /\ CommitPlan(State, m).res = "nothing"
            /\ Complete(State, CommitPlan(State, m).effs).s = State

\* The index is empty in a repository that has a commit and a working tree
\* with files.
EmptyIndexCommitReached ==
    /\ Len(index) = 0
    /\ ResolveHead(State) # NoHash
    /\ DOMAIN files # {}
    /\ \E m \in Messages : CommitPlan(State, m).res = "nothing"

\* C14: a successful Commit stores a commit whose parent list is exactly
\* <<the commit HEAD resolved to before>>, or empty when HEAD resolved to
\* none; the walk Log makes from HEAD afterwards is the new commit followed
\* by the walk it made before, and every walk reads all its commits and
\* ends at a commit without parents.
CommitExtendsLog ==
    /\ Log(State).ok
    /\ Log(State).out # <<>> =>
            objects[Log(State).out[Len(Log(State).out)]].content.parents = <<>>
    /\ \A m \in Messages :
        LET plan == CommitPlan(State, m)
            run == Complete(State, plan.effs)
            new == ResolveHead(run.s)
        IN  plan.res = "ok" =>
                /\ run.end = "done"
                /\ new \in Commits(run.s.objects)
                /\ new # ResolveHead(State)
                /\ run.s.objects[new].content.parents =
                        (IF ResolveHead(State) # NoHash THEN <<ResolveHead(State)>>
                         ELSE <<>>)
                /\ Log(run.s) = [ok |-> TRUE, out |-> <<new>> \o Log(State).out]

\* Three commits in a row have been made on the current branch, and one
\* more can be made.
CommitExtendsLogReached ==
    /\ OnBranch(State)
    /\ Len(Log(State).out) >= 3
    /\ \A i \in 1..Len(Log(State).out) :
            Len(objects[Log(State).out[i]].content.parents) <= 1
    /\ \E m \in Messages : CommitPlan(State, m).res = "ok"

\* C15: a successful Commit with HEAD on branch b writes the new commit's
\* hash to refs/heads/b and leaves HEAD and the other refs alone; with HEAD
\* detached it writes the new hash to HEAD and leaves every ref alone.  Either
\* way HEAD then resolves to the new commit, which carries the message and
\* the tree built from the index.
CommitMovesBranchOrHead ==
    \A m \in Messages :
        LET plan == CommitPlan(State, m)
            after == Complete(State, plan.effs).s
            new == HashObject("commit",
                       CommitContent(BuildTreeFromIndex(index).hash,
                                     IF ResolveHead(State) # NoHash
                                     THEN <<ResolveHead(State)>> ELSE <<>>, m))
        IN  plan.res = "ok" =>
                /\ HasObject(after.objects, new)
                /\ new # ResolveHead(State)
                /\ ResolveHead(after) = new
                /\ IF OnBranch(State)
                   THEN /\ after.HEAD = HEAD
                        /\ after.refs = (HEAD[2] :> new) @@ refs
                   ELSE /\ after.HEAD = new
                        /\ after.refs = refs

\* A commit has been made with HEAD detached: HEAD holds a commit that no
\* branch names and whose parent a branch does name; and one more commit
\* can be made.
DetachedCommitReached ==
    /\ ~OnBranch(State)
    /\ HEAD \in Commits(objects)
    /\ \A b \in DOMAIN refs : refs[b] # HEAD
    /\ \E b \in DOMAIN refs : objects[HEAD].content.parents = <<refs[b]>>
    /\ \E m \in Messages : CommitPlan(State, m).res = "ok"

\* C16: Branch with a name fails when refs/heads/<name> exists and fails
\* when HEAD resolves to no commit, and a failed call changes nothing;
\* otherwise it creates refs/heads/<name> holding the commit HEAD resolves
\* to, and HEAD, the index, the other refs, the object store and the
\* working tree are as before.
BranchCreates ==
    \A name \in Branches :
        LET plan == BranchPlan(State, name)
            run == Complete(State, plan.effs)
        IN  IF Tip(State, name) # NoHash
            THEN plan.res = "exists" /\ run.s = State
            ELSE IF ResolveHead(State) = NoHash
            THEN plan.res = "nocommits" /\ run.s = State
            ELSE /\ plan.res = "ok"
                 /\ run.end = "done"
                 /\ run.s = [State EXCEPT !.refs = (name :> ResolveHead(State)) @@ refs]

\* With HEAD detached at a commit that no branch names: one branch exists
\* and names another commit, a second one can be created, and the index
\* has entries.
BranchCreatesReached ==
    /\ ~OnBranch(State)
    /\ Len(index) > 0
    /\ \E name \in Branches :
            /\ Tip(State, name) # NoHash
            /\ Tip(State, name) # ResolveHead(State)
            /\ BranchPlan(State, name).res = "exists"
    /\ \E name \in Branches :
            /\ Tip(State, name) = NoHash
            /\ BranchPlan(State, name).res = "ok"

\* An in-memory entry as ReadIndex returns it: its path as bytes.
OnDisk(e) ==
    [Ctime |-> e.Ctime, Mtime |-> e.Mtime, Size |-> e.Size, Hash |-> e.Hash,
     Mode |-> e.Mode, Path |-> PathBytes(e.Path), Fill |-> 0]

\* The paths of a list of entries are pairwise different.
UniquePaths(entries) ==
    \A i, j \in 1..Len(entries) : entries[i].Path = entries[j].Path => i = j

\* C17: an index built by AddEntry and RemoveEntry calls never holds two
\* entries of one path, AddEntry of a path the index holds replaces that
\* entry where it stands, and the entries of a file WriteIndex wrote are in
\* strictly ascending byte order of their paths.
IndexUniqueAndAscending ==
    /\ probe.stage = "mem" =>
        /\ UniquePaths(probe.entries)
        /\ \A e \in IndexEntries :
            \A i \in 1..Len(probe.entries) :
                probe.entries[i].Path = e.Path =>
                    AddEntry(probe.entries, e) = [probe.entries EXCEPT ![i] = e]
        /\ \A p \in IndexFilePaths : UniquePaths(RemoveEntry(probe.entries, p))
    /\ (probe.stage = "read" /\ probe.from = "file") =>
        /\ probe.out.res = "ok"
        /\ Len(probe.out.entries) = Len(probe.entries)
        /\ \A i, j \in 1..Len(probe.out.entries) :
                i < j => SeqLess(probe.out.entries[i].Path, probe.out.entries[j].Path)

\* A file has been written and read from an index of three entries that
\* were not in path order in memory.
IndexUniqueAndAscendingReached ==
    /\ probe.stage = "read"
    /\ probe.from = "file"
    /\ Len(probe.entries) = 3
    /\ PathLess(probe.entries[3].Path, probe.entries[1].Path)
    /\ probe.out.res = "ok"

\* C18: ReadIndex of the file WriteIndex wrote for an index returns the
\* entries of that index sorted by path, each with its ctime, mtime, size,
\* hash, mode and path as they were in memory.
IndexRoundTrip ==
    (probe.stage = "read" /\ probe.from = "file") =>
        LET sorted == SortEntries(probe.entries)
        IN  probe.out = Decoded(U32(Len(sorted)),
                                [i \in 1..Len(sorted) |-> OnDisk(sorted[i])])

\* A file has been written and read from an index of three entries, out of
\* order in memory, with both sets of field values among them.
IndexRoundTripReached ==
    /\ probe.stage = "read"
    /\ probe.from = "file"
    /\ Len(probe.entries) = 3
    /\ PathLess(probe.entries[2].Path, probe.entries[1].Path)
    /\ \E i, j \in 1..3 : probe.entries[i].Hash # probe.entries[j].Hash
    /\ Len(probe.out.entries) = 3

\* C19: ReadIndex of a file that WriteIndex wrote and of which one byte was
\* changed afterwards returns an error and no index.
ChangedByteIsCorrupt ==
    (probe.stage = "read" /\ probe.from = "changed") =>
        /\ probe.out.res = "corrupt"
        /\ probe.out.entries = <<>>

\* The padding byte of the single entry "a" was changed, and the read
\* failed.
ChangedPaddingReached ==
    /\ probe.stage = "read"
    /\ probe.from = "changed"
    /\ Len(probe.entries) = 1
    /\ probe.entries[1].Path = <<"a">>
    /\ probe.file[HeaderLen + EntryFixedLen + 2] # 0
    /\ probe.out.res = "corrupt"

\* The result ReadIndex owes a file: the error of the first check that
\* fails, the checks being length, checksum, magic, version; an index when
\* none fails.
ChecksInOrder(data, out) ==
    IF Len(data) < HeaderLen THEN out = IndexCorrupt("index file too short")
    ELSE IF \/ Len(data) < SumLen
            \/ Sha1(SubSeq(data, 1, Len(data) - SumLen))
                    # SubSeq(data, Len(data) - SumLen + 1, Len(data))
    THEN out = IndexCorrupt("index checksum mismatch")
    ELSE IF SubSeq(data, 1, 4) # indexMagic THEN out = IndexCorrupt("invalid index magic")
    ELSE IF SubSeq(data, 5, 8) # PutU32(U32(indexVersion))
    THEN out = IndexCorrupt("unsupported index version")
    ELSE out.res = "ok"

\* C20: whatever an existing index file holds, ReadIndex returns an index
\* or an error and does not panic; the error is that of the first check the
\* file fails, in the order length (at least 12 bytes), trailing checksum,
\* magic, version.
ReadIndexNeverPanics ==
    probe.stage = "read" =>
        /\ probe.out.res \in {"ok", "corrupt"}
        /\ ChecksInOrder(probe.file, probe.out)

\* C21: ReadObject of the hash that WriteObject(kind, x) returned gives the
\* kind and the payload x back, for each of blob, tree and commit, after a
\* write that made the file and after one that found it there.
ObjectRoundTrip ==
    probe.stage = "out" =>
        probe.out = ObjectRead(KindBytes(probe.kind), probe.x)

\* A payload with a NUL and a space in it was written twice, the second
\* write finding the file, and then read.
ObjectRoundTripReached ==
    /\ probe.stage = "out"
    /\ probe.writes = 2
    /\ \E i, j \in 1..Len(probe.x) : probe.x[i] = 0 /\ probe.x[j] = 32
    /\ probe.out.ok

\* C22: no step of any command changes or removes a stored object, so the
\* store only grows; and WriteObject of a kind and payload that are stored
\* returns without a write and leaves the whole state as it is.
ObjectsWriteOnce ==
    [][/\ \A h \in DOMAIN objects : h \in DOMAIN objects' /\ objects'[h] = objects[h]
       /\ \A h \in DOMAIN objects :
            WriteObject(State, objects[h].kind, objects[h].content) =
                [s |-> State, log |-> <<>>]]_vars

\* The store holds two commits, and the blob of a working-tree file that
\* `add` would write again.
ObjectsWriteOnceReached ==
    /\ CommitCount(objects) >= 2
    /\ \E p \in DOMAIN files :
            /\ HasObject(objects, HashBlob(files[p].content))
            /\ p \notin IndexPaths(index)

\* No path of the map is a directory of another.
PrefixFree(m) == \A p, q \in DOMAIN m : ~IsProperPrefix(p, q)

\* C23: FlattenTree of the root that BuildTreeFromIndex returns for an index
\* holding exactly the map m gives m back, for every map m from paths to
\* blob hashes in which no path is a directory of another.
TreeRoundTripPrefixFree ==
    (probe.stage = "out" /\ PrefixFree(probe.m)) =>
        probe.out = [res |-> "ok", m |-> probe.m]

\* A map with a file at the root and two files in a directory came back.
TreeRoundTripReached ==
    /\ probe.stage = "out"
    /\ {<<"a">>, <<"d", "a">>, <<"d", "x">>} \subseteq DOMAIN probe.m
    /\ PrefixFree(probe.m)
    /\ probe.m[<<"d", "a">>] # probe.m[<<"d", "x">>]
    /\ probe.out.res = "ok"

\* C23 as it is stated: the same for every map with pairwise different
\* paths.
TreeRoundTripAnyMap ==
    probe.stage = "out" => probe.out = [res |-> "ok", m |-> probe.m]

\* The entry `add` owes the file p.
AddedEntry(s, p) ==
    Entry(p, HashBlob(s.files[p].content), IF s.files[p].exec THEN Mode755 ELSE Mode644)

\* C24: after a successful `add p` of a regular file p of the working
\* tree, the stored index holds exactly one entry for p, with the blob hash
\* of the file's bytes and the mode 100755 when an execute bit is set and
\* 100644 when none is; the blob is in the store; the other entries are as
\* before.
AddStagesFile ==
    \A p \in DOMAIN files :
        LET run == Complete(State, AddEffects(State, p))
        IN  run.end = "done" =>
                /\ \E i \in 1..Len(run.s.index) :
                        /\ run.s.index[i] = AddedEntry(State, p)
                        /\ \A j \in 1..Len(run.s.index) : run.s.index[j].Path = p => j = i
                /\ HasObject(run.s.objects, HashBlob(files[p].content))
                /\ RemoveEntry(run.s.index, p) = RemoveEntry(index, p)

\* C25: `add p` of a path that is neither a file nor a directory of the
\* working tree succeeds, and afterwards the stored index is the one before
\* without the entry of p; nothing else changes.
AddMissingRemovesEntry ==
    \A p \in Paths \cup Dirs :
        (p \notin DOMAIN files /\ p \notin dirs) =>
            LET run == Complete(State, AddEffects(State, p))
            IN  /\ run.end = "done"
                /\ run.s = [State EXCEPT
                                !.index = SelectSeq(index, LAMBDA e : e.Path # p)]

\* The index holds two entries and the file of one of them is gone.
AddMissingReached ==
    /\ Len(index) >= 2
    /\ \E p \in IndexPaths(index) :
            /\ p \notin DOMAIN files
            /\ Complete(State, AddEffects(State, p)).s.index # index

\* C26: for any two commits of the store, findMergeBase(current, target)
\* is the first commit on the first-parent walk from `current` that is a
\* first-parent ancestor of `target`, each commit being its own ancestor,
\* and the empty hash when the walks share no commit; the two commits may
\* be swapped without changing the result.
MergeBaseIsNearestCommon ==
    \A c, t \in Commits(objects) :
        /\ findMergeBase(objects, c, t) = MergeBase(objects, c, t)
        /\ findMergeBase(objects, c, t) = findMergeBase(objects, t, c)
        /\ findMergeBase(objects, c, t) = NoHash <=>
                Ancestors(objects, c) \cap Ancestors(objects, t) = {}

\* Two commits have a merge base that is neither of them, and two commits
\* have none.
MergeBaseReached ==
    /\ \E c, t \in Commits(objects) :
            findMergeBase(objects, c, t) \notin {c, t, NoHash}
    /\ \E c, t \in Commits(objects) : findMergeBase(objects, c, t) = NoHash

\* `merge b` is a fast-forward: the current commit differs from the target
\* commit and is on the first-parent walk from it.
FastForward(s, b) ==
    /\ Mergeable(s, b)
    /\ CurrentTip(s) # Tip(s, b)
    /\ CurrentTip(s) \in Ancestors(s.objects, Tip(s, b))

\* C27: a successful fast-forward merge leaves every path of the target
\* commit's tree in the working tree with the bytes of its blob, leaves the
\* index mapping exactly the target tree's paths to the target tree's
\* hashes, and deletes nothing: a file of the pre-merge commit's tree that
\* the target tree lacks is still on disk with its bytes when it was there
\* before, and is not in the new index.
FastForwardWritesTargetTree ==
    \A b \in Branches :
        FastForward(State, b) =>
            \A o \in MergeRuns(State, b) :
                MergeOk(o) =>
                    LET tar == TreeOf(objects, Tip(State, b))
                        cur == TreeOf(objects, CurrentTip(State))
                        after == o.run.s
                    IN  /\ \A p \in DOMAIN tar :
                            /\ p \in DOMAIN after.files
                            /\ after.files[p].content = objects[tar[p]].content
                        /\ IndexMap(after.index) = tar
                        /\ UniquePaths(after.index)
                        /\ \A p \in DOMAIN cur \ DOMAIN tar :
                            /\ p \notin IndexPaths(after.index)
                            /\ p \in DOMAIN files =>
                                    /\ p \in DOMAIN after.files
                                    /\ after.files[p] = files[p]

\* A fast-forward succeeds where the current commit tracks a file that is
\* on disk and staged, and that the target tree lacks, and where a file of
\* the target tree is not on disk as the target has it.
FastForwardKeepsFileReached ==
    \E b \in Branches :
        /\ FastForward(State, b)
        /\ \E o \in MergeRuns(State, b) :
            /\ MergeOk(o)
            /\ \E p \in DOMAIN TreeOf(objects, CurrentTip(State)) :
                /\ p \notin DOMAIN TreeOf(objects, Tip(State, b))
                /\ p \in DOMAIN files
                /\ p \in IndexPaths(index)
            /\ \E p \in DOMAIN TreeOf(objects, Tip(State, b)) :
                \/ p \notin DOMAIN files
                \/ files[p].content # objects[TreeOf(objects, Tip(State, b))[p]].content

\* C28: when Merge returns an error (HEAD detached, a branch without a
\* commit, a conflict, or a failed read or write while the result of a
\* fast-forward or of a three-way merge is put in place), the current
\* branch ref names the commit it named before the merge.
MergeErrorKeepsRef ==
    \A b \in Branches :
        \A o \in MergeRuns(State, b) :
            (~MergeOk(o) /\ OnBranch(State)) =>
                Tip(o.run.s, HEAD[2]) = Tip(State, HEAD[2])

\* C29: right after a successful three-way merge of branch b into the
\* current branch, `merge b` run again, no commit having been made on
\* either branch, reports "already up to date", creates no commit and
\* leaves the current branch ref as it is.
MergeAgainIsUpToDate ==
    \A b \in Branches :
        ThreeWay(State, b) =>
            \A o \in MergeRuns(State, b) :
                (MergeOk(o) /\ o.res = "merged") =>
                    \A again \in MergeRuns(o.run.s, b) :
                        /\ MergeOk(again)
                        /\ again.res = "uptodate"
                        /\ Commits(again.run.s.objects) = Commits(o.run.s.objects)
                        /\ Tip(again.run.s, HEAD[2]) = Tip(o.run.s, HEAD[2])

\* C30: in every state reached from init by add, commit, branch, checkout
\* and merge, HEAD is a symbolic reference to a branch, and when at least
\* one branch ref exists, the branch HEAD names has a ref.
HeadSymbolicOnExistingBranch ==
    /\ HEAD[1] = "ref"
    /\ HEAD[2] \in Branches
    /\ DOMAIN refs # {} => HEAD[2] \in DOMAIN refs

\* Both branches exist on different commits, one of them a merge commit,
\* and a checkout has put HEAD on the branch made second.
HeadOnSecondBranchReached ==
    /\ DOMAIN refs = Branches
    /\ refs["main"] # refs["feat"]
    /\ HEAD = SymbolicHead("feat")
    /\ \E h \in Commits(objects) : Len(objects[h].content.parents) = 2

\* C31: after a successful checkout of a branch whose commit differs from
\* the current one, BuildTreeFromIndex on the index checkout wrote
\* completes and gives the tree hash recorded in the branch's commit,
\* whatever modes the entries of that tree have.
CheckoutIndexRebuildsTree ==
    \A b \in Branches :
        (Tip(State, b) # NoHash /\ ResolveHead(State) # Tip(State, b)) =>
            \A o \in CheckoutRuns(State, b) :
                CheckoutOk(o) =>
                    /\ ~BuildPanics(o.run.s.index)
                    /\ BuildTreeFromIndex(o.run.s.index).hash
                            = objects[Tip(State, b)].content.tree

\* C32: in every index that add, checkout or merge has written, no entry's
\* path is a proper directory prefix of another entry's path, and Commit's
\* BuildTreeFromIndex runs to its end on it: Commit does not crash.
IndexHoldsNoFileAndDirectory ==
    /\ \A i, j \in 1..Len(index) : ~IsProperPrefix(index[i].Path, index[j].Path)
    /\ \A m \in Messages : CommitPlan(State, m).res # "panic"

\* C33: a successful checkout leaves every file of the working tree that
\* the tree of the commit HEAD resolved to does not track as it was: the
\* file is still there, with the content it had.
CheckoutKeepsUntracked ==
    \A b \in Branches :
        \A o \in CheckoutRuns(State, b) :
            CheckoutOk(o) =>
                \A p \in DOMAIN files \ DOMAIN TreeOf(objects, ResolveHead(State)) :
                    /\ p \in DOMAIN o.run.s.files
                    /\ o.run.s.files[p] = files[p]

\* C34: when Checkout returns an error (unknown branch, an unreadable
\* commit, tree or blob, a failed write in the working tree or of the
\* index), HEAD is what it was before the call.
CheckoutErrorKeepsHead ==
    \A b \in Branches :
        \A o \in CheckoutRuns(State, b) :
            ~CheckoutOk(o) => o.run.s.HEAD = HEAD

\* A checkout of another branch gets as far as updateWorkingTree and a
\* write in the working tree fails there.
CheckoutFailsHalfWayReached ==
    \E b \in Branches :
        \E o \in CheckoutRuns(State, b) :
            /\ o.res = "ok"
            /\ o.run.end = "err"
            /\ HEAD # SymbolicHead(b)

\* C35: for every base, current and target map, the resolution with
\* current and target swapped has the same conflict verdict and, when
\* there is no conflict, the same merged map.
ResolveIsSymmetric ==
    probe.stage = "out" =>
        LET swapped == ResolveTrees(probe.baseTree, probe.targetTree, probe.currentTree)
        IN  /\ swapped.hasConflict = probe.out.hasConflict
            /\ swapped.conflicts = probe.out.conflicts
            /\ ~probe.out.hasConflict => swapped.mergedTree = probe.out.mergedTree

\* A resolution without conflict in which one path was changed by the
\* current side only and another by the target side only.
ResolveBothSidesReached ==
    /\ probe.stage = "out"
    /\ ~probe.out.hasConflict
    /\ \E p, q \in DOMAIN probe.out.mergedTree :
        /\ p # q
        /\ Lookup(probe.targetTree, p) = Lookup(probe.baseTree, p)
        /\ Lookup(probe.currentTree, p) # Lookup(probe.baseTree, p)
        /\ Lookup(probe.currentTree, q) = Lookup(probe.baseTree, q)
        /\ Lookup(probe.targetTree, q) # Lookup(probe.baseTree, q)

\* The parents of a stored commit.
ParentsOf(objs, h) == {objs[h].content.parents[i] : i \in 1..Len(objs[h].content.parents)}

\* C36: every parent of a commit that commit or merge writes was in the
\* store before that commit, so that the parent relation has no cycle; and
\* the first-parent walk of Log, isAncestor and findMergeBase from any
\* commit reads every commit it comes to, visits none twice and ends at a
\* commit without parents.
ParentsWrittenFirst ==
    /\ [][\A h \in Commits(objects') \ Commits(objects) :
            ParentsOf(objects', h) \subseteq Commits(objects)]_vars
    /\ [](\A h \in Commits(objects) :
            LET walk == LogWalk(objects, h)
                n == Len(walk.out)
            IN  /\ walk.ok
                /\ walk.out = FirstParentChain(objects, h)
                /\ \A i, j \in 1..n : i # j => walk.out[i] # walk.out[j]
                /\ ParentsOf(objects, walk.out[n]) = {}
                /\ ParentsOf(objects, h) \subseteq Commits(objects))

\* A merge commit, with two parents, is in the store and the current
\* branch names it; the walk from it visits three commits.
MergeCommitWalkReached ==
    /\ OnBranch(State)
    /\ CurrentTip(State) \in Commits(objects)
    /\ Cardinality(ParentsOf(objects, CurrentTip(State))) = 2
    /\ Len(Log(State).out) >= 3

\* The places of the changes in a diff.
Changes(diff) == {i \in 1..Len(diff) : diff[i].op # " "}

\* The changes that open a hunk: the first, and each one that at least
\* 2 * contextLines unchanged lines separate from the change before it.
Openers(diff) ==
    {i \in Changes(diff) :
        \A j \in Changes(diff) : j < i =>
            \E k \in Changes(diff) : k < i /\ k >= j /\ i - k - 1 >= 2 * contextLines}

\* The k-th opener, counted from 1.
Opener(diff, k) ==
    CHOOSE i \in Openers(diff) : Cardinality({j \in Openers(diff) : j < i}) = k - 1

\* The last change of the hunk that the change i opens.
Closer(diff, i) ==
    LET later == {j \in Openers(diff) : j > i}
        mine == {c \in Changes(diff) : c >= i /\ \A j \in later : c < j}
    IN  CHOOSE c \in mine : \A x \in mine : x <= c

\* C37: the hunks of buildHunks are, in order, one for each run of changes
\* that fewer than 2 * contextLines unchanged lines separate; a hunk holds
\* the lines from three before its first change to three after its last
\* change, fewer only where the file begins or ends; and its header counts
\* are the numbers of its old-side and new-side lines.
HunksHaveContext ==
    probe.stage = "out" =>
        LET diff == probe.out.diff
            hunks == probe.out.hunks
        IN  /\ Len(hunks) = Cardinality(Openers(diff))
            /\ \A k \in 1..Len(hunks) :
                LET first == Opener(diff, k)
                    last == Closer(diff, first)
                    lo == IF first - contextLines < 1 THEN 1 ELSE first - contextLines
                    hi == IF last + contextLines > Len(diff) THEN Len(diff)
                          ELSE last + contextLines
                    h == hunks[k]
                IN  /\ h.hunkLines = SubSeq(diff, lo, hi)
                    /\ h.hunkOldCount =
                        Cardinality({i \in 1..Len(h.hunkLines) : h.hunkLines[i].op # "+"})
                    /\ h.hunkNewCount =
                        Cardinality({i \in 1..Len(h.hunkLines) : h.hunkLines[i].op # "-"})

\* C38: whatever the interleaving of the calls of concurrent WriteObject
\* calls, for equal or distinct payloads, once every call has returned
\* each payload is read back unchanged from the file of its own hash; and
\* writers of distinct payloads have distinct files.
ConcurrentWritesStored ==
    probe.stage = "writers" =>
        /\ (\A i \in Writers : probe.w[i].pc = "done") =>
                \A i \in Writers :
                    ReadObject(probe.store, WriterHash(i))
                        = ObjectRead(KindBytes("blob"), probe.w[i].x)
        /\ \A i, j \in Writers :
                probe.w[i].x # probe.w[j].x => WriterHash(i) # WriterHash(j)

\* Two writers of the same payload have both found the file missing, both
\* written it, and returned.
ConcurrentSamePayloadReached ==
    /\ probe.stage = "writers"
    /\ \A i \in Writers : probe.w[i].pc = "done" /\ probe.w[i].off > 0
    /\ \E i, j \in Writers : i # j /\ probe.w[i].x = probe.w[j].x

\* C39: for every path length L in 0..65535, the 38 bytes of an entry
\* before its path, the L bytes of the path and the p zero bytes WriteIndex
\* appends make a multiple of 8, with 0 <= p <= 7, and ReadIndex, with the
\* length it reads from the entry, skips the same p bytes: the entries of
\* a written index, between the header and the checksum, take a multiple
\* of 8 bytes.
PaddingAlignsEntries ==
    probe.stage = "out" =>
        /\ probe.fixed = EntryFixedLen
        /\ probe.written \in 0..(Align - 1)
        /\ (probe.fixed + probe.L + probe.written) % Align = 0
        /\ probe.pathLen = probe.L
        /\ probe.skipped = probe.written

\* The longest path has been padded, by three bytes.
LongestPathPaddedReached ==
    /\ probe.stage = "out"
    /\ probe.L = MaxPathLen
    /\ probe.written = 3
    /\ probe.skipped = 3

====
